---- MODULE Spec2Model ----
(***************************************************************************)
(* A model of the terrain core of BenNevis (package nevis): the sea-level  *)
(* reconciliation of the elevation raster (set_sea_level, add_sea_slope),  *)
(* the linear interpolant, the British National Grid reference model      *)
(* (class Coords), the hill index (class Hill), the build and the caching *)
(* of the raster (download_os50, gb), and a session of the game server    *)
(* (server.py).                                                            *)
(*                                                                         *)
(* Heights are integers in units of the slope decrement h = 0.01 m, so    *)
(* that s = -100 m is -10000 and every value the pipeline computes        *)
(* (s - k*h, and the final shift by -s) is an integer.                     *)
(***************************************************************************)
EXTENDS Integers, Sequences, FiniteSets, TLC

VARIABLES
    heights,    \* the raster as the pipeline mutates it in place
    entry,      \* heights as they were when the last step was entered
    first,      \* heights as the first reconciliation left them
    phase,      \* which steps of the pipeline have run
    query,      \* the last call of the linear interpolant: x, y in metres
    answer,     \* what it returned, as a numerator over (2 * resolution)^2
    obj,        \* a Coords object: its grid point and its cached squares
    call,       \* the last call on class Coords: the operation and its argument
    ret,        \* what that call returned or raised
    hillFile,   \* hills.csv as class Hill reads it
    Hill,       \* the class attributes _hills, _names, _ids and _tree
    hcall,      \* the last call on class Hill and its outcome
    disk,       \* the data directory: the archive and the cache file
    os50,       \* the arrays in memory and the module attribute _heights
    run,        \* the process: where a build is, and what it has done
    gcall,      \* the last call of gb or download_os50 and its outcome
    tiling,     \* a call of _spiral_squares: the shape, the side, the list
    user,       \* the BenNevisUser of a connection to the server
    conn        \* the last message of the connection and what was queued

seaVars == <<heights, entry, first, phase>>
interpVars == <<query, answer>>
bngVars == <<obj, call, ret>>
hillVars == <<hillFile, Hill, hcall>>
storeVars == <<disk, os50, run, gcall>>
roomVars == <<tiling, user, conn>>
vars == <<heights, entry, first, phase, query, answer, obj, call, ret,
          hillFile, Hill, hcall, disk, os50, run, gcall, tiling, user, conn>>

\* ------------------------------------------------------------ bounds
\* Rows and columns of the model's raster (the source has 26000 x 14000).
ny == 5
nx == 5
\* Side of a tile of set_sea_level (80 in the source, _os50.py line 394),
\* scaled with the raster.
d == 2
\* At most this many interior cells of an input raster differ from the rest.
MaxWet == 2
\* The interpolant is called on multiples of half a cell, up to this many
\* half cells outside the raster on each side.
MaxOut == 2

\* ------------------------------------------------------------ constants
\* The sea-mask sentinel: -100 m, in units of h.
s == -10000
\* The slope decrement 0.01 m is the unit.
h == 1
zmax == 100
kmax == 1000
\* Metres between two grid points.
resolution == 50

Cells == (0 .. ny - 1) \X (0 .. nx - 1)
Interior == (1 .. ny - 2) \X (1 .. nx - 2)
\* An input raster is mostly land (0.01 m) or mostly water (zero, or a
\* negative height). In mostly land, the other cells hold a value far below
\* the sentinel, the sentinel itself (missing data is replaced by -100 before
\* the pipeline runs), a negative height or zero; in mostly water, land or
\* the other kind of water.
LandVal == h
GroundVals == {LandVal, 0, -1}
OtherVals(ground) ==
    IF ground = LandVal THEN {2 * s, s, -1, 0} ELSE GroundVals \ {ground}

Min(a, b) == IF a < b THEN a ELSE b
Max(a, b) == IF a > b THEN a ELSE b

\* A raster written cell by cell, as the array it is: every cell holds its
\* value (the function is evaluated once, not at each later read).
Array(f) == f @@ <<>>

\* ------------------------------------------------------------ _spiral_squares
\* Python's range(a, b, step) as a sequence.
RECURSIVE Range(_, _, _)
Range(a, b, step) ==
    IF (step > 0 /\ a >= b) \/ (step < 0 /\ a <= b) THEN <<>>
    ELSE <<a>> \o Range(a + step, b, step)

\* [f(r[1]), f(r[2]), ...] for the two shapes of tuple the spiral appends.
AlongX(r, y) == [i \in 1 .. Len(r) |-> <<r[i], y>>]
AlongY(x, r) == [i \in 1 .. Len(r) |-> <<x, r[i]>>]

\* The while loop of _spiral_squares; squares are (x, y) lower-left corners.
RECURSIVE Spiral(_, _, _, _, _, _)
Spiral(x0, y0, x1, y1, dd, acc) ==
    IF ~(x1 > x0) THEN acc
    ELSE
      LET a1 == acc \o AlongX(Range(x0, x1, dd), y0)
          y0b == y0 + dd
      IN IF y1 <= y0b THEN a1
         ELSE
           LET a2 == a1 \o AlongY(x1 - dd, Range(y0b, y1, dd))
               x1b == x1 - dd
           IN IF x1b <= x0 THEN a2
              ELSE
                LET a3 == a2 \o AlongX(Range(x1b - dd, x0 - dd, -dd), y1 - dd)
                    y1b == y1 - dd
                IN IF y1b <= y0b THEN a3
                   ELSE
                     LET a4 == a3 \o AlongY(x0, Range(y1b - dd, y0b - dd, -dd))
                     IN Spiral(x0 + dd, y0b, x1b, y1b, dd, a4)

\* (a variant: the spiral starts one square short of the right edge)
spiral_squares_short(rows, cols, dd) == Spiral(0, 0, cols - dd, rows, dd, <<>>)
spiral_squares(rows, cols, dd) == Spiral(0, 0, cols, rows, dd, <<>>)

\* ------------------------------------------------------------ set_sea_level
\* heights[:1, :] = heights[-1:, :] = heights[:, :1] = heights[:, -1:] = sv
ForceEdges(hh, sv) ==
    Array([c \in Cells |->
        IF c[1] = 0 \/ c[1] = ny - 1 \/ c[2] = 0 \/ c[2] = nx - 1
        THEN sv ELSE hh[c]])

\* The cells (row, column) of the view v of square sq of side dd, after the
\* translation by one pixel at the edges.
View(sq, dd) ==
    LET x0 == Max(sq[1], 1)
        y0 == Max(sq[2], 1)
        x1 == Min(sq[1] + dd, nx - 1)
        y1 == Min(sq[2] + dd, ny - 1)
    IN (y0 .. y1 - 1) \X (x0 .. x1 - 1)

\* The cells of v0 (above), v1 (below), v2 (left) and v3 (right) that lie
\* at the place of cell c of v.
Around(c) ==
    {<<c[1] + 1, c[2]>>, <<c[1] - 1, c[2]>>, <<c[1], c[2] - 1>>, <<c[1], c[2] + 1>>}

\* n = (v <= 0) & (v != s) & ((v0 == s) | (v1 == s) | (v2 == s) | (v3 == s))
Wavefront(hh, v, sv) ==
    {c \in v : hh[c] <= 0 /\ hh[c] # sv /\ \E a \in Around(c) : hh[a] = sv}

\* The loop "for k in range(1000)" on one square, with kcap for the 1000.
RECURSIVE FloodSquare(_, _, _, _, _)
FloodSquare(hh, v, sv, k, kcap) ==
    IF k >= kcap THEN hh
    ELSE LET n == Wavefront(hh, v, sv)
         IN IF n = {} THEN hh
            ELSE FloodSquare(Array([c \in Cells |-> IF c \in n THEN sv ELSE hh[c]]),
                             v, sv, k + 1, kcap)

\* The body of "for i, sq in enumerate(squares)": the heights after it,
\* whether the square joins the skip list and whether it sets changed.
ProcessSquare(hh, sq, dd, sv, kcap) ==
    LET v == View(sq, dd)
    IN IF \A c \in v : hh[c] < 0
       THEN IF \E c \in v : hh[c] = sv \/ \E a \in Around(c) : hh[a] = sv
            THEN [hh |-> Array([c \in Cells |-> IF c \in v THEN sv ELSE hh[c]]),
                  skip |-> TRUE, changed |-> TRUE]
            ELSE [hh |-> hh, skip |-> FALSE, changed |-> FALSE]
       ELSE IF \A c \in v : hh[c] > 0
       THEN [hh |-> hh, skip |-> TRUE, changed |-> FALSE]
       ELSE [hh |-> FloodSquare(hh, v, sv, 0, kcap), skip |-> FALSE,
             changed |-> Wavefront(hh, v, sv) # {}]

\* One pass over the squares, from square i on: the heights, the indices to
\* skip and the changed flag at the end of the pass.
RECURSIVE SquaresPass(_, _, _, _, _, _, _, _)
SquaresPass(hh, squares, dd, sv, i, skip, changed, kcap) ==
    IF i > Len(squares) THEN [hh |-> hh, skip |-> skip, changed |-> changed]
    ELSE LET r == ProcessSquare(hh, squares[i], dd, sv, kcap)
         IN SquaresPass(r.hh, squares, dd, sv, i + 1,
                        IF r.skip THEN skip \cup {i} ELSE skip,
                        changed \/ r.changed, kcap)

\* for i in reversed(skip): del(squares[i])
DelSquares(squares, skip) ==
    LET keep == {i \in 1 .. Len(squares) : i \notin skip}
        RECURSIVE Pick(_)
        Pick(i) == IF i > Len(squares) THEN <<>>
                   ELSE (IF i \in keep THEN <<squares[i]>> ELSE <<>>) \o Pick(i + 1)
    IN Pick(1)

\* (a variant: the passes go on until one changes nothing, whatever z is)
StopUncapped(left, changed, z, cap) ==
    IF left = <<>> THEN "no squares"
    ELSE IF ~changed THEN "unchanged"
    ELSE ""
\* The end of pass z of at most cap passes: why the loop ends there, or ""
\* when it goes on.
Stop(left, changed, z, cap) ==
    IF left = <<>> THEN "no squares"
    ELSE IF ~changed THEN "unchanged"
    ELSE IF z + 1 >= cap THEN "zmax"
    ELSE ""

\* The loop "for z in range(zmax)" over squares of side dd, with cap for
\* zmax and kcap for kmax: the heights when it ends, the last z and why it
\* ended.
RECURSIVE SeaPasses(_, _, _, _, _, _, _)
SeaPasses(hh, squares, dd, sv, z, cap, kcap) ==
    LET r == SquaresPass(hh, squares, dd, sv, 1, {}, FALSE, kcap)
        left == DelSquares(squares, r.skip)
        stop == Stop(left, r.changed, z, cap)
    IN IF stop # ""
       THEN [hh |-> r.hh, z |-> z, stop |-> stop]
       ELSE SeaPasses(r.hh, left, dd, sv, z + 1, cap, kcap)

\* set_sea_level with d, zmax and kmax as parameters.
set_sea_level_tiled(hh, sv, dd, cap, kcap) ==
    SeaPasses(ForceEdges(hh, sv), spiral_squares(ny, nx, dd), dd, sv, 0, cap,
              kcap)

set_sea_level_run(hh, sv) == set_sea_level_tiled(hh, sv, d, zmax, kmax)

set_sea_level(hh, sv) == set_sea_level_run(hh, sv).hh

\* ------------------------------------------------------------ add_sea_slope
InGrid(c) == c[1] >= 0 /\ c[1] < ny /\ c[2] >= 0 /\ c[2] < nx

\* The first frontier: the cells equal to sv with a neighbour, above, below,
\* right or left, that is not sv.
Coast(hh, sv) ==
    {c \in Cells : hh[c] = sv /\ \E a \in Around(c) : InGrid(a) /\ hh[a] # sv}

\* One "move" of the frontier fr by (dy, dx): of the cells one step from the
\* frontier and inside the array, those that are sv, or lower than their
\* source less h, are kept ...
MoveTargets(hh, fr, sv, dy, dx) ==
    {t \in {<<c[1] + dy, c[2] + dx>> : c \in fr} :
        /\ InGrid(t)
        /\ (hh[t] = sv \/ hh[t] < hh[<<t[1] - dy, t[2] - dx>>] - h)}

\* ... and take their source's height less h.
MoveHeights(hh, tg, dy, dx) ==
    IF tg = {} THEN hh
    ELSE Array([c \in Cells |->
                  IF c \in tg THEN hh[<<c[1] - dy, c[2] - dx>>] - h ELSE hh[c]])

\* The body of the loop "for i in range(ny * nx)": down, up, left, right,
\* each on the heights the move before it left; the heights and the next
\* frontier.
SlopeStep(hh, fr, sv) ==
    LET td == MoveTargets(hh, fr, sv, -1, 0)
        h1 == MoveHeights(hh, td, -1, 0)
        tu == MoveTargets(h1, fr, sv, 1, 0)
        h2 == MoveHeights(h1, tu, 1, 0)
        tl == MoveTargets(h2, fr, sv, 0, -1)
        h3 == MoveHeights(h2, tl, 0, -1)
        tr == MoveTargets(h3, fr, sv, 0, 1)
        h4 == MoveHeights(h3, tr, 0, 1)
    IN [hh |-> h4, next |-> td \cup tu \cup tl \cup tr]

\* (a variant: the loop runs to the end of its range)
SlopeEndsAtRange(next, i) == i + 1 >= ny * nx
\* Iteration i is the last: "if len(y) == 0: break", or the range is at its
\* end.
SlopeEnds(next, i) == next = {} \/ i + 1 >= ny * nx

\* The loop "for i in range(ny * nx)": the heights when it ends, and the
\* number of iterations it made.
RECURSIVE SlopeLoop(_, _, _, _)
SlopeLoop(hh, fr, sv, i) ==
    LET r == SlopeStep(hh, fr, sv)
    IN IF SlopeEnds(r.next, i) THEN [hh |-> r.hh, n |-> i + 1]
       ELSE SlopeLoop(r.hh, r.next, sv, i + 1)

\* (a variant: the shift misses the cells next to the coast, at s - h)
ShiftBackBelowCoast(hh, sv) ==
    Array([c \in Cells |-> IF hh[c] < sv - h THEN hh[c] - sv ELSE hh[c]])

\* heights[heights < s] -= s
ShiftBack(hh, sv) ==
    Array([c \in Cells |-> IF hh[c] < sv THEN hh[c] - sv ELSE hh[c]])

\* "heights[y, x] = s - h" on the first frontier.
SlopeStart(hh, sv) ==
    Array([c \in Cells |-> IF c \in Coast(hh, sv) THEN sv - h ELSE hh[c]])

\* add_sea_slope up to the end of its loop.
add_sea_slope_loop(hh, sv) == SlopeLoop(SlopeStart(hh, sv), Coast(hh, sv), sv, 0)

add_sea_slope(hh, sv) == ShiftBack(add_sea_slope_loop(hh, sv).hh, sv)

\* ------------------------------------------------------------ the pipeline
\* No call of the interpolant yet.
NoQuery == <<0, 0>>
InterpIdle == query = NoQuery /\ answer = 0

\* None, and an attribute that was never set.
None == <<"None">>
\* No Coords object, no call on the class and no result yet.
NoObj == [gridx |-> 0, gridy |-> 0, normx |-> <<0, 1>>, normy |-> <<0, 1>>,
          square |-> None, square3 |-> None, square4 |-> None,
          square5 |-> None]
NoCall == [op |-> "", arg |-> <<>>]
NoRet == [raised |-> "", str |-> <<>>, x |-> 0, y |-> 0, size |-> <<0, 1>>]
BngIdle == obj = NoObj /\ call = NoCall /\ ret = NoRet

\* A hill object is known by its position in Hill._hills: every Hill that is
\* constructed is appended there. Heights are in whole metres.
NoTree == [built |-> FALSE, data |-> <<>>]
NoHills == [hills |-> <<>>, names |-> <<>>, ids |-> <<>>, tree |-> NoTree]
NoHillCall == [op |-> "", name |-> <<>>, num |-> 0, at |-> <<0, 0>>,
               raised |-> "", hill |-> 0, dist2 |-> 0]
HillIdle == hillFile = <<>> /\ Hill = NoHills /\ hcall = NoHillCall

\* np.nan in the array that is being filled: a number no height takes.
NaN == 9999999
\* No file, no array in memory, no call of download_os50 or gb yet.
NoData == Array([c \in Cells |-> NaN])
NoDisk == [dir |-> FALSE, zip |-> [present |-> FALSE, tiles |-> <<>>],
           npy |-> [present |-> FALSE, data |-> NoData]]
NoArrays == [heights |-> 0, arrays |-> <<>>]
NoReturn == [base |-> 0, step |-> 1]
NoRun == [module |-> "", pc |-> "idle", force |-> FALSE, make_dirs |-> FALSE,
          work |-> NoData, log |-> <<>>, builds |-> 0, loads |-> 0,
          first |-> NoReturn]
NoGbCall == [op |-> "", arg |-> <<>>, status |-> "", raised |-> "",
             msg |-> "", path |-> "", name |-> "", ret |-> NoReturn,
             exit |-> 0]
StoreIdle == disk = NoDisk /\ os50 = NoArrays /\ run = NoRun /\ gcall = NoGbCall

\* No call of _spiral_squares, and a connection on which no message has
\* come: the user as BenNevisUser.__init__ leaves it.
NoTiling == [rows |-> 0, cols |-> 0, side |-> 0, returned |-> FALSE,
             squares |-> <<>>]
NewUser == [has_finished |-> FALSE, n_evals |-> 0, translation |-> <<0, 0>>,
            points |-> <<<<>>>>, trajectory |-> <<>>, c |-> <<>>, hd |-> <<>>,
            map_full_sent |-> FALSE, map_zoom_sent |-> FALSE,
            line_plot_sent |-> FALSE]
NoConn == [name |-> "", queued |-> "", text |-> "", raised |-> "",
           images |-> [map_full |-> 0, map_zoom |-> 0, line_plot |-> 0]]
RoomIdle == tiling = NoTiling /\ user = NewUser /\ conn = NoConn

\* An input raster: its ground value, but for the cells of W.
RasterOf(ground, W, f) ==
    Array([c \in Cells |-> IF c \in W THEN f[c] ELSE ground])

SeaInit ==
    /\ \E ground \in GroundVals : \E W \in SUBSET Interior :
          /\ Cardinality(W) <= MaxWet
          /\ \E f \in [W -> OtherVals(ground)] : heights = RasterOf(ground, W, f)
    /\ entry = heights
    /\ first = heights
    /\ phase = "raw"
    /\ InterpIdle
    /\ BngIdle
    /\ HillIdle
    /\ StoreIdle
    /\ RoomIdle

\* set_sea_level(heights, -100), on the raw raster or on a reconciled one.
SetSeaLevel ==
    /\ phase \in {"raw", "sloped"}
    /\ heights' = set_sea_level(heights, s)
    /\ entry' = heights
    /\ phase' = IF phase = "raw" THEN "masked" ELSE "masked2"
    /\ UNCHANGED <<first, interpVars, bngVars, hillVars, storeVars, roomVars>>

\* add_sea_slope(heights, -100), after set_sea_level.
AddSeaSlope ==
    /\ phase \in {"masked", "masked2"}
    /\ heights' = add_sea_slope(heights, s)
    /\ entry' = heights
    /\ phase' = IF phase = "masked" THEN "sloped" ELSE "sloped2"
    /\ first' = IF phase = "masked" THEN heights' ELSE first
    /\ UNCHANGED <<interpVars, bngVars, hillVars, storeVars, roomVars>>

SeaNext == SetSeaLevel \/ AddSeaSlope

SpecSea == SeaInit /\ [][SeaNext]_vars

\* ------------------------------------------------------------ linear_interpolant
\* int(): truncation towards zero of the fraction num / den (den > 0).
IntOfFraction(num, den) ==
    IF num >= 0 THEN num \div den ELSE -((-num) \div den)

\* A grid index taken from the cell's lower-left corner: the half-cell shift
\* to the cell's centre is left out.
GridIndexFromCorner(v) == 2 * v

\* x / resolution - 0.5, as a numerator over 2 * resolution.
GridIndex(v) == 2 * v - resolution

\* linear_interpolant.__call__(x, y) on the raster hh. Fractions are exact:
\* x / resolution - 0.5 is kept as the numerator gx over den = 2 * resolution,
\* f1 and f2 as numerators over den, and the result as a numerator over
\* den * den. (At a cell centre the floating-point weights are exactly 1 and
\* 0, so nothing is rounded there either.)
linear_interpolant(hh, x, y) ==
    LET den == 2 * resolution
        gx == GridIndex(x)
        gy == GridIndex(y)
        x1 == Min(nx - 2, Max(0, IntOfFraction(gx, den)))
        y1 == Min(ny - 2, Max(0, IntOfFraction(gy, den)))
        x2 == x1 + 1
        y2 == y1 + 1
        h11 == hh[<<y1, x1>>]
        h12 == hh[<<y2, x1>>]
        h21 == hh[<<y1, x2>>]
        h22 == hh[<<y2, x2>>]
        f1 == IF h11 = h21 THEN h11 * den
              ELSE (x2 * den - gx) * h11 + (gx - x1 * den) * h21
        f2 == IF h12 = h22 THEN h12 * den
              ELSE (x2 * den - gx) * h12 + (gx - x1 * den) * h22
    IN IF f1 = f2 THEN f1 * den
       ELSE (y2 * den - gy) * f1 + (gy - y1 * den) * f2

\* The interpolant works on the raster gb() returns: a reconciled one.
InterpInit ==
    /\ \E ground \in GroundVals : \E W \in SUBSET Interior :
          /\ Cardinality(W) <= MaxWet
          /\ \E f \in [W -> OtherVals(ground)] :
                heights = add_sea_slope(set_sea_level(RasterOf(ground, W, f), s), s)
    /\ entry = heights
    /\ first = heights
    /\ phase = "cached"
    /\ InterpIdle
    /\ BngIdle
    /\ HillIdle
    /\ StoreIdle
    /\ RoomIdle

QueryPoints(n) == {k * (resolution \div 2) : k \in (-MaxOut) .. (2 * n + MaxOut)}

\* z = f(x, y), for f = linear_interpolant(): the program is single-threaded,
\* one call at a time.
Interpolate ==
    /\ phase = "cached"
    /\ query = NoQuery
    /\ \E x \in QueryPoints(nx) : \E y \in QueryPoints(ny) :
          /\ query' = <<x, y>>
          /\ answer' = linear_interpolant(heights, x, y)
    /\ UNCHANGED <<seaVars, bngVars, hillVars, storeVars, roomVars>>

\* The caller has taken the result.
InterpolateDone ==
    /\ query # NoQuery
    /\ query' = NoQuery
    /\ answer' = 0
    /\ UNCHANGED <<seaVars, bngVars, hillVars, storeVars, roomVars>>

InterpNext == Interpolate \/ InterpolateDone

SpecInterp == InterpInit /\ [][InterpNext]_vars

\* ------------------------------------------------------------ interpolation claims
\* The centre of cell (row, col), in metres.
CentreX(col) == resolution * col + resolution \div 2
CentreY(row) == resolution * row + resolution \div 2

\* C4: queried exactly at the centre of an interior cell, the linear
\* interpolant returns exactly that cell's height.
C4_ExactAtCellCentre ==
    \A c \in Interior :
        query = <<CentreX(c[2]), CentreY(c[1])>> /\ query # NoQuery
            => answer = heights[c] * (2 * resolution) * (2 * resolution)

\* The interpolant has been called at the centre of an interior cell whose
\* four neighbours all hold heights other than its own.
C4_Witness ==
    \E c \in Interior :
        /\ query = <<CentreX(c[2]), CentreY(c[1])>>
        /\ \A a \in Around(c) : heights[a] # heights[c]
        /\ answer = heights[c] * (2 * resolution) * (2 * resolution)

\* ------------------------------------------------------------ sea claims
Edge == {c \in Cells : c[1] = 0 \/ c[1] = ny - 1 \/ c[2] = 0 \/ c[2] = nx - 1}

\* A plain whole-grid breadth-first flood fill: from the cells of S, through
\* the non-positive cells, four neighbours at a time.
RECURSIVE FloodFrom(_, _)
FloodFrom(hh, S) ==
    LET more == {c \in Cells \ S : hh[c] <= 0 /\ \E a \in Around(c) : a \in S}
    IN IF more = {} THEN S ELSE FloodFrom(hh, S \cup more)

SeaMask(hh) == {c \in Cells : hh[c] = s}

\* The 4-connected graph distance of cell c to the nearest cell of land;
\* ny + nx when there is no land.
Abs(n) == IF n < 0 THEN -n ELSE n
RECURSIVE Nearest(_, _, _)
Nearest(land, c, k) ==
    IF k >= ny + nx THEN k
    ELSE IF \E l \in land : Abs(l[1] - c[1]) + Abs(l[2] - c[2]) = k THEN k
    ELSE Nearest(land, c, k + 1)

\* For every sea cell of hh (equal to s), its distance to the nearest cell
\* that is not sea.
LandDistances(hh) ==
    LET land == {l \in Cells : hh[l] # s}
    IN Array([c \in SeaMask(hh) |-> Nearest(land, c, 1)])

\* C1: after set_sea_level the cells equal to s are exactly the cells a
\* breadth-first flood fill from the one-cell border reaches through
\* 4-connected non-positive cells of the raster it was given.
C1_MaskIsBorderFloodFill ==
    phase \in {"masked", "masked2"} => SeaMask(heights) = FloodFrom(entry, Edge)

\* C2: after add_sea_slope, of two sea cells (cells equal to s on entry) the
\* one strictly farther from the nearest land cell is not higher.
C2_SlopeMonotone ==
    phase \in {"sloped", "sloped2"} =>
        LET dist == LandDistances(entry)
        IN \A a \in SeaMask(entry) : \A b \in SeaMask(entry) :
              dist[b] > dist[a] => heights[b] <= heights[a]

\* add_sea_slope has run on a raster with two interior sea cells, one next
\* to land and one two steps from it, and made the farther one lower.
C2_Witness ==
    /\ phase = "sloped"
    /\ LET dist == LandDistances(entry)
       IN \E a \in SeaMask(entry) \cap Interior : \E b \in SeaMask(entry) \cap Interior :
             dist[a] = 1 /\ dist[b] = 2 /\ heights[b] = -2 * h /\ heights[a] = -h

\* C3: a second reconciliation of a reconciled raster changes no cell.
C3_ReconcileIdempotent ==
    phase = "sloped2" => heights = first

\* ------------------------------------------------------------ _bng.py
\* Strings are sequences of one-character strings.
\* Size of the grid (the array), in metres.
width == 700000
height == 1300000

\* The letter table, bottom row first.
GL == << <<"V", "W", "X", "Y", "Z">>,
         <<"Q", "R", "S", "T", "U">>,
         <<"L", "M", "N", "O", "P">>,
         <<"F", "G", "H", "J", "K">>,
         <<"A", "B", "C", "D", "E">> >>

Digits == <<"0", "1", "2", "3", "4", "5", "6", "7", "8", "9">>
UpperCase == <<"A", "B", "C", "D", "E", "F", "G", "H", "I", "J", "K", "L", "M",
               "N", "O", "P", "Q", "R", "S", "T", "U", "V", "W", "X", "Y", "Z">>
LowerCase == <<"a", "b", "c", "d", "e", "f", "g", "h", "i", "j", "k", "l", "m",
               "n", "o", "p", "q", "r", "s", "t", "u", "v", "w", "x", "y", "z">>
\* The characters of the model in the order Python compares them.
Ascii == <<" ", "+", "-">> \o Digits \o UpperCase \o LowerCase
Ord(c) == CHOOSE i \in DOMAIN Ascii : Ascii[i] = c

IsSpace(c) == c = " "
IsDigit(c) == \E i \in DOMAIN Digits : Digits[i] = c
DigitVal(c) == (CHOOSE i \in DOMAIN Digits : Digits[i] = c) - 1

\* str(n) for n >= 0.
RECURSIVE Str(_)
Str(n) == IF n < 10 THEN <<Digits[n + 1]>>
          ELSE Str(n \div 10) \o <<Digits[(n % 10) + 1]>>

\* f'{x}': the number without the zero padding.
Unpadded(n) == Str(n)

\* f'{x:0>5}': the number right-aligned in five characters, filled with "0".
RECURSIVE ZeroFill(_)
ZeroFill(str) == IF Len(str) >= 5 THEN str ELSE ZeroFill(<<"0">> \o str)
Pad5(n) == ZeroFill(Str(n))

\* str[:n]
Prefix(str, n) == SubSeq(str, 1, Min(n, Len(str)))
\* str[n:]
Suffix(str, n) == SubSeq(str, Min(n, Len(str)) + 1, Len(str))

OffTheGrid == <<"O", "f", "f", " ", "t", "h", "e", " ", "g", "r", "i", "d">>

\* A float is a fraction <<numerator, denominator>>. The normalised pairs
\* the model draws are multiples of 1/128, whose products with width and
\* height are doubles, so int(normx * width) is computed without rounding;
\* gridx / width is kept exact where the code rounds it to the nearest
\* double.
RECURSIVE GCD(_, _)
GCD(a, b) == IF b = 0 THEN a ELSE GCD(b, a % b)
\* norm * size, as a fraction in lowest terms of the denominator and size.
Times(norm, size) ==
    LET g == GCD(norm[2], size)
    IN  <<norm[1] * (size \div g), norm[2] \div g>>

\* round(norm * size): the product rounded to the nearest integer.
NormToGridRounded(norm, size) ==
    LET p == Times(norm, size) IN (2 * p[1] + p[2]) \div (2 * p[2])

\* int(self._normx * width): the product truncated towards zero.
NormToGrid(norm, size) ==
    LET p == Times(norm, size) IN IntOfFraction(p[1], p[2])

\* An argument that is None, and one that is given.
Absent == <<>>
Given(v) == <<v>>

\* Coords.__init__(gridx, gridy, normx, normy): the object, or ValueError
\* when neither pair is given alone.
Coords_init(gridx, gridy, normx, normy) ==
    LET fromGrid == /\ gridx # Absent /\ gridy # Absent
                    /\ normx = Absent /\ normy = Absent
        fromNorm == /\ normx # Absent /\ normy # Absent
                    /\ gridx = Absent /\ gridy = Absent
        gx == IF fromGrid THEN gridx[1] ELSE NormToGrid(normx[1], width)
        gy == IF fromGrid THEN gridy[1] ELSE NormToGrid(normy[1], height)
    IN  IF ~fromGrid /\ ~fromNorm
        THEN [obj |-> NoObj, ret |-> [NoRet EXCEPT !.raised = "ValueError"]]
        ELSE [obj |-> [gridx |-> gx, gridy |-> gy,
                       normx |-> IF fromGrid THEN <<gx, width>> ELSE normx[1],
                       normy |-> IF fromGrid THEN <<gy, height>> ELSE normy[1],
                       square |-> None, square3 |-> None, square4 |-> None,
                       square5 |-> None],
              ret |-> NoRet]

\* Coords(gridx, gridy) on integers.
Coords(gridx, gridy) ==
    Coords_init(Given(gridx), Given(gridy), Absent, Absent).obj

\* Coords._find_square(n) on the object o: the object it leaves, and what it
\* returns or raises. GL[a][b] with a or b beyond the table raises
\* IndexError, which the method's except KeyError does not catch; _square
\* stays None then.
find_square(o, n) ==
    LET x == o.gridx + 1000000
        y == o.gridy + 500000
        a == y \div 500000
        b == x \div 500000
        x5 == x % 500000
        y5 == y % 500000
        a2 == y5 \div 100000
        b2 == x5 \div 100000
        name == <<GL[a + 1][b + 1], GL[a2 + 1][b2 + 1]>>
        found == IF o.square # None THEN o.square
                 ELSE IF a < 0 \/ b < 0 THEN <<"False">>
                 ELSE IF a > 4 \/ b > 4 THEN <<"IndexError">>
                 ELSE <<name, Pad5(x5 % 100000), Pad5(y5 % 100000)>>
    IN  IF found = <<"IndexError">>
        THEN [obj |-> o, ret |-> [NoRet EXCEPT !.raised = "IndexError"]]
        ELSE [obj |-> [o EXCEPT !.square = found],
              ret |-> [NoRet EXCEPT !.str =
                          IF found = <<"False">> THEN OffTheGrid
                          ELSE found[1] \o Prefix(found[2], n)
                                        \o Prefix(found[3], n)]]

\* The cached attribute _square3, _square4 or _square5.
SquareAttr(o, n) ==
    CASE n = 3 -> o.square3 [] n = 4 -> o.square4 [] n = 5 -> o.square5
SetSquareAttr(o, n, str) ==
    CASE n = 3 -> [o EXCEPT !.square3 = str]
      [] n = 4 -> [o EXCEPT !.square4 = str]
      [] n = 5 -> [o EXCEPT !.square5 = str]

\* The properties square3, square4 and square5 on the object o.
square_property(o, n) ==
    IF SquareAttr(o, n) # None
    THEN [obj |-> o, ret |-> [NoRet EXCEPT !.str = SquareAttr(o, n)]]
    ELSE LET r == find_square(o, n)
         IN  IF r.ret.raised # "" THEN r
             ELSE [obj |-> SetSquareAttr(r.obj, n, r.ret.str), ret |-> r.ret]

\* str.strip() and str.upper()
RECURSIVE lstrip(_)
lstrip(str) ==
    IF Len(str) > 0 /\ IsSpace(str[1]) THEN lstrip(Tail(str)) ELSE str
RECURSIVE rstrip(_)
rstrip(str) ==
    IF Len(str) > 0 /\ IsSpace(str[Len(str)])
    THEN rstrip(SubSeq(str, 1, Len(str) - 1)) ELSE str
strip(str) == rstrip(lstrip(str))
UpperOf(c) ==
    IF \E i \in DOMAIN LowerCase : LowerCase[i] = c
    THEN UpperCase[CHOOSE i \in DOMAIN LowerCase : LowerCase[i] = c] ELSE c
upper(str) == [i \in DOMAIN str |-> UpperOf(str[i])]

\* The length of the first word of str (str does not start with a space).
RECURSIVE WordLen(_)
WordLen(str) ==
    IF Len(str) = 0 \/ IsSpace(str[1]) THEN 0 ELSE 1 + WordLen(Tail(str))

\* str.split(maxsplit=1): the first word, and whatever follows the
\* whitespace after it.
split(str) ==
    LET body == lstrip(str)
        k == WordLen(body)
        rest == lstrip(Suffix(body, k))
    IN  IF Len(body) = 0 THEN <<>>
        ELSE IF Len(rest) = 0 THEN <<Prefix(body, k)>>
        ELSE <<Prefix(body, k), rest>>

\* The value of a string of digits.
RECURSIVE DigitsVal(_)
DigitsVal(str) ==
    IF Len(str) = 0 THEN 0
    ELSE 10 * DigitsVal(SubSeq(str, 1, Len(str) - 1)) + DigitVal(str[Len(str)])

\* int(str): an optional sign and at least one digit, or ValueError.
int(str) ==
    LET signed == Len(str) > 0 /\ str[1] \in {"+", "-"}
        body == IF signed THEN Tail(str) ELSE str
    IN  IF Len(body) = 0 \/ \E i \in DOMAIN body : ~IsDigit(body[i])
        THEN [ok |-> FALSE, val |-> 0]
        ELSE [ok |-> TRUE,
              val |-> IF signed /\ str[1] = "-" THEN -DigitsVal(body)
                      ELSE DigitsVal(body)]

\* find(letter): the first row (from the bottom) whose first letter is not
\* above the letter, and the letter's place in it; ValueError if there is no
\* such row or the letter is not in it.
RECURSIVE find_from(_, _)
find_from(letter, i) ==
    IF i > 5 THEN [ok |-> FALSE, i |-> 0, j |-> 0]
    ELSE IF Ord(letter) >= Ord(GL[i][1]) /\ letter # "I"
    THEN IF \E j \in 1 .. 5 : GL[i][j] = letter
         THEN [ok |-> TRUE, i |-> i - 1,
               j |-> (CHOOSE j \in 1 .. 5 : GL[i][j] = letter) - 1]
         ELSE [ok |-> FALSE, i |-> 0, j |-> 0]
    ELSE find_from(letter, i + 1)
\* find(letter) with the row and the column the wrong way round.
find_swapped(letter) ==
    LET r == find_from(letter, 1) IN [ok |-> r.ok, i |-> r.j, j |-> r.i]
find(letter) == find_from(letter, 1)

\* n % 2 == 0: the test on the digit count the wrong way round.
EvenLength(n) == n % 2 = 0
\* n % 2 == 1
OddLength(n) == n % 2 = 1

\* n = max(len(numbers[0]), len(numbers[1]))
GroupLength(numbers) == Max(Len(numbers[1]), Len(numbers[2]))

\* 10**(4 - n): a square ten times too small.
SquareSizeTenth(n) == IF n <= 4 THEN <<10^(4 - n), 1>> ELSE <<1, 10^(n - 4)>>
\* m = 10**(5 - n), as a fraction: below one metre when n > 5.
SquareSize(n) == IF n <= 5 THEN <<10^(5 - n), 1>> ELSE <<1, 10^(n - 5)>>

ValueError == [NoRet EXCEPT !.raised = "ValueError"]
IndexError == [NoRet EXCEPT !.raised = "IndexError"]
Return(x, y, size) == [NoRet EXCEPT !.x = x, !.y = y, !.size = size]

\* Coords.from_square_with_size(square): the grid point of the Coords it
\* returns and the size, or what it raises. Coords.__init__ truncates with
\* int() when the size is below one metre.
from_square_with_size(square) ==
    LET code == upper(strip(square))
        f1 == find(code[1])
        x1 == -1000000 + 500000 * f1.j
        y1 == -500000 + 500000 * f1.i
        f2 == find(code[2])
        x2 == x1 + 100000 * f2.j
        y2 == y1 + 100000 * f2.i
        numbers == split(Suffix(code, 2))
        single == Len(numbers) = 1
        n == IF single THEN Len(numbers[1]) \div 2 ELSE GroupLength(numbers)
        pair == IF single
                THEN <<Prefix(numbers[1], n), Suffix(numbers[1], n)>>
                ELSE numbers
        a == int(pair[1])
        b == int(pair[2])
        m == SquareSize(n)
    IN  IF Len(code) < 1 THEN ValueError
        ELSE IF ~f1.ok THEN ValueError
        ELSE IF Len(code) = 1 THEN Return(x1, y1, <<500000, 1>>)
        ELSE IF ~f2.ok THEN ValueError
        ELSE IF Len(code) = 2 THEN Return(x2, y2, <<100000, 1>>)
        ELSE IF Len(numbers) = 0 THEN IndexError
        ELSE IF single /\ OddLength(Len(numbers[1])) THEN ValueError
        ELSE IF ~a.ok \/ ~b.ok THEN ValueError
        ELSE IF a.val < 0 \/ b.val < 0 THEN ValueError
        ELSE Return(IntOfFraction(x2 * m[2] + a.val * m[1], m[2]),
                    IntOfFraction(y2 * m[2] + b.val * m[1], m[2]), m)

\* The inner loop of squares(): the entries (name, x, y) of the row at y,
\* from x on; names are strings of two letters.
RECURSIVE SquaresAlong(_, _, _, _, _, _)
SquaresAlong(x, y, i0, i1, j0, j1) ==
    IF x >= width THEN <<>>
    ELSE <<<<(<<GL[i0 + 1][j0 + 1], GL[i1 + 1][j1 + 1]>>), x, y>>>>
         \o SquaresAlong(x + 100000, y, i0, i1,
                         IF j1 + 1 = 5 THEN j0 + 1 ELSE j0,
                         IF j1 + 1 = 5 THEN 0 ELSE j1 + 1)
\* The outer loop of squares(): the rows from y on.
RECURSIVE SquaresUp(_, _, _)
SquaresUp(y, i0, i1) ==
    IF y >= height THEN <<>>
    ELSE SquaresAlong(0, y, i0, i1, 2, 0)
         \o SquaresUp(y + 100000, IF i1 + 1 = 5 THEN i0 + 1 ELSE i0,
                      IF i1 + 1 = 5 THEN 0 ELSE i1 + 1)
\* (a variant: the rows start at the bottom row of letters, VWXYZ)
squares_from_first_row == SquaresUp(0, 0, 0)
\* squares(): "i0, i1 = 1, 0", start on the second row (QRSTU).
squares == SquaresUp(0, 1, 0)

\* Coords.from_square(square)
from_square(square) ==
    [from_square_with_size(square) EXCEPT !.size = NoRet.size]

\* Nothing of the terrain is loaded while class Coords is exercised.
TerrainIdle ==
    /\ heights = <<>>
    /\ entry = <<>>
    /\ first = <<>>
    /\ phase = ""
    /\ InterpIdle

\* Grid points inside the grid, around the edges of the letter table (which
\* spans x in [-1000000, 1500000) and y in [-500000, 2000000)), and beyond it.
GridXs == {-1000001, -1000000, -1, 0, 42, 99999, 216600, 699999, 1499999,
           1500000}
GridYs == {-500001, -500000, -1, 0, 7, 771200, 1299999, 1999999, 2000000}

\* Normalised coordinates: multiples of 1/128 inside and just outside [0, 1].
NormXs == {<<-1, 128>>, <<0, 128>>, <<33, 128>>, <<64, 128>>, <<127, 128>>,
           <<128, 128>>, <<129, 128>>}
NormYs == {<<-3, 128>>, <<0, 128>>, <<77, 128>>, <<128, 128>>, <<131, 128>>}

\* The arguments of Coords(...): a metric pair, a normalised pair, and the
\* calls that give neither pair alone.
CoordsArgs ==
    {<<Given(x), Given(y), Absent, Absent>> : x \in GridXs, y \in GridYs}
    \cup {<<Absent, Absent, Given(x), Given(y)>> : x \in NormXs, y \in NormYs}
    \cup {<<Absent, Absent, Absent, Absent>>,
          <<Given(0), Absent, Absent, Absent>>,
          <<Given(0), Given(0), Given(<<0, 128>>), Absent>>,
          <<Given(0), Given(0), Given(<<0, 128>>), Given(<<0, 128>>)>>}

CoordsInit ==
    /\ TerrainIdle
    /\ \E args \in CoordsArgs :
          LET r == Coords_init(args[1], args[2], args[3], args[4])
          IN  obj = r.obj /\ ret = r.ret
    /\ call = [op |-> "Coords", arg |-> <<>>]
    /\ HillIdle
    /\ StoreIdle
    /\ RoomIdle

\* Reading the property square3, square4 or square5 of the object.
ReadSquare(n, op) ==
    /\ obj # NoObj
    /\ call' = [op |-> op, arg |-> <<>>]
    /\ LET r == square_property(obj, n) IN obj' = r.obj /\ ret' = r.ret
    /\ UNCHANGED <<seaVars, interpVars, hillVars, storeVars, roomVars>>
Square3 == ReadSquare(3, "square3")
Square4 == ReadSquare(4, "square4")
Square5 == ReadSquare(5, "square5")
SquareOps == {"square3", "square4", "square5"}

\* Coords.from_square(c.squareN): the string just read is parsed back.
FromSquare ==
    /\ call.op \in SquareOps
    /\ ret.raised = ""
    /\ call' = [op |-> "from_square", arg |-> ret.str]
    /\ ret' = from_square(ret.str)
    /\ UNCHANGED <<obj, seaVars, interpVars, hillVars, storeVars, roomVars>>

CoordsNext == Square3 \/ Square4 \/ Square5 \/ FromSquare

SpecCoords == CoordsInit /\ [][CoordsNext]_vars

\* Grid references to parse: optional leading whitespace, letters, and two
\* groups of characters with or without whitespace before each.
Leads == {<<>>, <<" ">>}
LetterParts == {<<>>, <<"N">>, <<"N", "N">>, <<"n", "n">>, <<"Z", "Z">>,
                <<"S", "V">>, <<"H", "P">>, <<"T", "Q">>, <<"J", "M">>,
                <<"I", "N">>, <<"N", "I">>, <<"N", "7">>}
SepsA == {<<>>, <<" ">>}
SepsB == {<<>>, <<" ">>, <<" ", " ">>}
Groups == {<<>>, <<"1">>, <<"7">>, <<"1", "6">>, <<"7", "1">>,
           <<"1", "6", "6">>, <<"7", "1", "2">>,
           <<"0", "0", "0", "4", "2">>, <<"9", "9", "9", "9", "9">>,
           <<"1", "2", "3", "4", "5", "6">>,
           <<"-", "5">>, <<"+", "1">>, <<"7", "N">>}
Codes == {lead \o letters \o sepA \o g1 \o sepB \o g2 :
             lead \in Leads, letters \in LetterParts, sepA \in SepsA,
             g1 \in Groups, sepB \in SepsB, g2 \in Groups}

ParseInit == TerrainIdle /\ BngIdle /\ HillIdle /\ StoreIdle /\ RoomIdle

\* Coords.from_square_with_size(code): obj is the Coords it returns.
FromSquareWithSize ==
    /\ call = NoCall
    /\ \E code \in Codes :
          /\ call' = [op |-> "from_square_with_size", arg |-> code]
          /\ ret' = from_square_with_size(code)
          /\ obj' = IF ret'.raised = "" THEN Coords(ret'.x, ret'.y) ELSE obj
    /\ UNCHANGED <<seaVars, interpVars, hillVars, storeVars, roomVars>>

\* The caller has taken the result.
FromSquareWithSizeDone ==
    /\ call # NoCall
    /\ call' = NoCall
    /\ ret' = NoRet
    /\ obj' = NoObj
    /\ UNCHANGED <<seaVars, interpVars, hillVars, storeVars, roomVars>>

\* squares(): call.arg holds the list it returned.
Squares ==
    /\ call = NoCall
    /\ call' = [op |-> "squares", arg |-> squares]
    /\ UNCHANGED <<obj, ret, seaVars, interpVars, hillVars, storeVars, roomVars>>

\* Coords.from_square_with_size(name), for an entry (name, x, y) of the list
\* squares() returned.
FromSquareEntry ==
    /\ call.op = "squares"
    /\ \E k \in DOMAIN call.arg :
          /\ call' = [op |-> "from_square_with_size", arg |-> call.arg[k][1]]
          /\ ret' = from_square_with_size(call.arg[k][1])
          /\ obj' = IF ret'.raised = "" THEN Coords(ret'.x, ret'.y) ELSE obj
    /\ UNCHANGED <<seaVars, interpVars, hillVars, storeVars, roomVars>>

ParseNext ==
    \/ FromSquareWithSize
    \/ FromSquareWithSizeDone
    \/ Squares
    \/ FromSquareEntry

SpecParse == ParseInit /\ [][ParseNext]_vars

\* ------------------------------------------------------------ claims on Coords
InsideGrid(o) ==
    o.gridx >= 0 /\ o.gridx < width /\ o.gridy >= 0 /\ o.gridy < height

\* C5: for a Coords c inside the grid, Coords.from_square(c.square5) does not
\* raise and returns a point within 1 metre of c in x and in y.
C5_Square5RoundTrip ==
    (call.op = "from_square" /\ call.arg = obj.square5 /\ InsideGrid(obj)) =>
        /\ ret.raised = ""
        /\ Abs(ret.x - obj.gridx) <= 1
        /\ Abs(ret.y - obj.gridy) <= 1

\* A point whose digits need zero padding has been written and parsed back.
C5_Witness ==
    /\ call.op = "from_square"
    /\ call.arg = obj.square5
    /\ obj.gridx = 42
    /\ obj.gridy = 771200
    /\ ret.raised = ""
    /\ ret.x = 42
    /\ ret.y = 771200

\* The 25 grid letters in reading order: rows of five from the north-west
\* corner (A) to the south-east corner (Z), without I.
GridLetters == <<"A", "B", "C", "D", "E", "F", "G", "H", "J", "K", "L", "M",
                 "N", "O", "P", "Q", "R", "S", "T", "U", "V", "W", "X", "Y",
                 "Z">>
IsGridLetter(c) == \E k \in DOMAIN GridLetters : GridLetters[k] = c
LetterPlace(c) == (CHOOSE k \in DOMAIN GridLetters : GridLetters[k] = c) - 1
\* Columns from the west and rows from the south of a letter in its table.
LetterColumn(c) == LetterPlace(c) % 5
LetterRow(c) == 4 - (LetterPlace(c) \div 5)
\* The origin of the 100 km square named by two letters; square SV is (0, 0).
SquareOriginX(l1, l2) == 500000 * (LetterColumn(l1) - 2) + 100000 * LetterColumn(l2)
SquareOriginY(l1, l2) == 500000 * (LetterRow(l1) - 1) + 100000 * LetterRow(l2)

\* Two grid letters followed by 2n digits and nothing else, 1 <= n <= 5.
IsPlainReference(code) ==
    /\ Len(code) \in {4, 6, 8, 10, 12}
    /\ IsGridLetter(code[1])
    /\ IsGridLetter(code[2])
    /\ \A i \in 3 .. Len(code) : IsDigit(code[i])

NN166712 == <<"N", "N", "1", "6", "6", "7", "1", "2">>
NN1671 == <<"N", "N", "1", "6", "7", "1">>
ZZ == <<"Z", "Z">>

\* C6: from_square_with_size on two grid letters followed by 2n digits
\* (1 <= n <= 5) returns the origin of the letters' 100 km square plus
\* (easting digits, northing digits) * 10^(5 - n), and the size 10^(5 - n);
\* 'NN166712' gives (216600, 771200) with size 100.
C6_PlainReference ==
    /\ (call.op = "from_square_with_size" /\ IsPlainReference(call.arg)) =>
          LET code == call.arg
              n == (Len(code) - 2) \div 2
              m == 10^(5 - n)
          IN  /\ ret.raised = ""
              /\ ret.x = SquareOriginX(code[1], code[2])
                            + DigitsVal(SubSeq(code, 3, 2 + n)) * m
              /\ ret.y = SquareOriginY(code[1], code[2])
                            + DigitsVal(SubSeq(code, 3 + n, Len(code))) * m
              /\ ret.size = <<m, 1>>
    /\ (call.op = "from_square_with_size" /\ call.arg = NN166712) =>
          ret.raised = "" /\ ret.x = 216600 /\ ret.y = 771200
                          /\ ret.size = <<100, 1>>

C6_Witness ==
    /\ call.op = "from_square_with_size"
    /\ call.arg = NN166712
    /\ ret.raised = ""
    /\ obj = Coords(216600, 771200)
    /\ ret.size = <<100, 1>>

\* C7 as stated: from_square_with_size('ZZ') fails with ValueError.
C7_ZZRejected ==
    (call.op = "from_square_with_size" /\ call.arg = ZZ) =>
        ret.raised = "ValueError"

\* C7: from_square_with_size('ZZ') does not fail: Z is a letter of the table,
\* and the call returns (1400000, -500000) with size 100000. A reference
\* whose first or second character is the letter I fails with ValueError.
C7_ZZAccepted ==
    call.op = "from_square_with_size" =>
        LET code == upper(strip(call.arg))
        IN  /\ call.arg = ZZ =>
                  /\ ret.raised = ""
                  /\ ret.x = 1400000
                  /\ ret.y = -500000
                  /\ ret.size = <<100000, 1>>
            /\ (Len(code) >= 1 /\ code[1] = "I") => ret.raised = "ValueError"
            /\ (Len(code) >= 2 /\ code[2] = "I") => ret.raised = "ValueError"

C7_Witness ==
    /\ call.op = "from_square_with_size"
    /\ call.arg = ZZ
    /\ ret.raised = ""
    /\ obj = Coords(1400000, -500000)

\* C8 as stated: from_square_with_size('NN1671') fails with ValueError.
C8_NN1671Rejected ==
    (call.op = "from_square_with_size" /\ call.arg = NN1671) =>
        ret.raised = "ValueError"

\* C8: from_square_with_size('NN1671') does not fail: it has four digits, an
\* even count, and the call returns (216000, 771000) with size 1000. A
\* reference with an odd number of digits after the letters, and no
\* separator, fails with ValueError.
C8_OddDigitCountRejected ==
    call.op = "from_square_with_size" =>
        LET code == upper(strip(call.arg))
        IN  /\ call.arg = NN1671 =>
                  /\ ret.raised = ""
                  /\ ret.x = 216000
                  /\ ret.y = 771000
                  /\ ret.size = <<1000, 1>>
            /\ (/\ Len(code) > 2
                /\ (Len(code) - 2) % 2 = 1
                /\ \A i \in 3 .. Len(code) : IsDigit(code[i])) =>
                  ret.raised = "ValueError"

C8_Witness ==
    /\ call.op = "from_square_with_size"
    /\ call.arg = NN1671
    /\ ret.raised = ""
    /\ obj = Coords(216000, 771000)
    /\ ret.size = <<1000, 1>>

\* C9: a reference whose two digit groups, separated by whitespace, differ
\* in length (such as 'NN 16 712') fails with ValueError.
C9_UnequalGroupsRejected ==
    call.op = "from_square_with_size" =>
        LET code == upper(strip(call.arg))
            numbers == split(Suffix(code, 2))
        IN  (/\ Len(code) > 2
             /\ Len(numbers) = 2
             /\ Len(numbers[1]) # Len(numbers[2])) =>
                ret.raised = "ValueError"

\* Outside the letter table: x in [-1000000, 1500000), y in [-500000, 2000000).
OutsideLetterTable(o) ==
    \/ o.gridx < -1000000
    \/ o.gridx >= 1500000
    \/ o.gridy < -500000
    \/ o.gridy >= 2000000

\* C10: for a Coords outside the letter table on any side, square3, square4
\* and square5 return 'Off the grid' and do not raise.
C10_OffTableSentinel ==
    (call.op \in SquareOps /\ OutsideLetterTable(obj)) =>
        ret.raised = "" /\ ret.str = OffTheGrid

\* C11 as stated: the stored grid pair equals the stored normalised pair
\* times (width, height).
C11_GridIsNormalisedTimesSize ==
    obj # NoObj =>
        /\ <<obj.gridx, 1>> = Times(obj.normx, width)
        /\ <<obj.gridy, 1>> = Times(obj.normy, height)

\* C11: the stored grid pair is the stored normalised pair times
\* (width, height) truncated towards zero: the two agree to within one
\* metre, and exactly when the product is a whole number (as it is for a
\* Coords constructed from a metric pair).
C11_GridIsTruncatedNormalised ==
    obj # NoObj =>
        LET px == Times(obj.normx, width)
            py == Times(obj.normy, height)
        IN  /\ obj.gridx = IntOfFraction(px[1], px[2])
            /\ obj.gridy = IntOfFraction(py[1], py[2])
            /\ Abs(obj.gridx * px[2] - px[1]) < px[2]
            /\ Abs(obj.gridy * py[2] - py[1]) < py[2]
            /\ px[1] % px[2] = 0 => obj.gridx * px[2] = px[1]
            /\ py[1] % py[2] = 0 => obj.gridy * py[2] = py[1]

\* A Coords constructed from a normalised pair whose products are not whole.
C11_Witness ==
    /\ call.op = "Coords"
    /\ obj.normx = <<33, 128>>
    /\ obj.normy = <<-3, 128>>
    /\ obj.gridx = 180468
    /\ obj.gridy = -30468

\* ------------------------------------------------------------ class Hill
\* str.lower()
LowerOf(c) ==
    IF \E i \in DOMAIN UpperCase : UpperCase[i] = c
    THEN LowerCase[CHOOSE i \in DOMAIN UpperCase : UpperCase[i] = c] ELSE c
lower(str) == [i \in DOMAIN str |-> LowerOf(str[i])]

\* dict[key] = value
SetItem(dict, key, value) == (key :> value) @@ dict

\* Hill.__init__ without the test on the tree: the hill is added whether or
\* not the tree has been built. int(x) raises ValueError when the field is
\* not a number (NaN here).
Hill_init_unguarded(cls, row) ==
    LET hill == [row EXCEPT !.name = strip(row.name)]
        i == Len(cls.hills) + 1
    IN  IF row.x = NaN THEN [cls |-> cls, raised |-> "ValueError"]
        ELSE [cls |-> [cls EXCEPT
                          !.hills = Append(cls.hills, hill),
                          !.names = SetItem(cls.names, lower(hill.name), i),
                          !.ids = SetItem(cls.ids, hill.id, i)],
              raised |-> ""]

\* Hill.__init__(x, y, rank, height, hill_id, name) on the class attributes
\* cls: ValueError once the tree exists or when a field is not a number;
\* else the hill is appended to _hills and entered in _names and _ids.
Hill_init(cls, row) ==
    IF cls.tree.built THEN [cls |-> cls, raised |-> "ValueError"]
    ELSE Hill_init_unguarded(cls, row)

\* np.float32 of an integer: exact below 2^24, the nearest multiple of two
\* (ties to even) from there to 2^25.
Float32(n) ==
    IF Abs(n) < 16777216 THEN n
    ELSE LET a == Abs(n)
             r == IF a % 4 = 3 THEN a + 1 ELSE a - (a % 2)
         IN  IF n < 0 THEN -r ELSE r

\* The loop of Hill._load over the rows from row k on.
RECURSIVE LoadRows(_, _, _, _)
LoadRows(cls, rows, k, coords) ==
    IF k > Len(rows)
    THEN [cls |-> [cls EXCEPT !.tree = [built |-> TRUE, data |-> coords]],
          raised |-> ""]
    ELSE LET r == Hill_init(cls, rows[k])
         IN  IF r.raised # "" THEN r
             ELSE LoadRows(r.cls, rows, k + 1,
                           Append(coords, <<Float32(rows[k].x),
                                            Float32(rows[k].y)>>))

\* Hill._load(): ValueError when the header lacks a field.
Hill_load(cls, file) ==
    IF ~file.header THEN [cls |-> cls, raised |-> "ValueError"]
    ELSE LoadRows(cls, file.rows, 1, <<>>)

\* if not Hill._hills: Hill._load()
EnsureLoaded(cls, file) ==
    IF cls.hills = <<>> THEN Hill_load(cls, file)
    ELSE [cls |-> cls, raised |-> ""]

HillReturn(cls, i) == [cls |-> cls, raised |-> "", hill |-> i, dist2 |-> 0]
HillRaise(cls, e) == [cls |-> cls, raised |-> e, hill |-> 0, dist2 |-> 0]

\* Hill.by_id(hill_id)
by_id(cls, file, hill_id) ==
    LET r == EnsureLoaded(cls, file)
    IN  IF r.raised # "" THEN HillRaise(r.cls, r.raised)
        ELSE IF hill_id \in DOMAIN r.cls.ids
        THEN HillReturn(r.cls, r.cls.ids[hill_id])
        ELSE HillRaise(r.cls, "KeyError")

\* Hill.by_name(name)
by_name(cls, file, name) ==
    LET r == EnsureLoaded(cls, file)
        key == lower(name)
    IN  IF r.raised # "" THEN HillRaise(r.cls, r.raised)
        ELSE IF key \in DOMAIN r.cls.names
        THEN HillReturn(r.cls, r.cls.names[key])
        ELSE HillRaise(r.cls, "KeyError")

\* Hill.by_rank(rank): a list index below zero counts from the end of the
\* list; the assert is not executed when Python runs optimised (-O).
by_rank(cls, file, rank, optimised) ==
    LET r == EnsureLoaded(cls, file)
        n == Len(r.cls.hills)
        k == rank - 1
        i == IF k >= 0 THEN k + 1 ELSE n + k + 1
    IN  IF r.raised # "" THEN HillRaise(r.cls, r.raised)
        ELSE IF k >= n \/ k < -n THEN HillRaise(r.cls, "IndexError")
        ELSE IF r.cls.hills[i].rank # rank /\ ~optimised
        THEN HillRaise(r.cls, "AssertionError")
        ELSE HillReturn(r.cls, i)

\* The square of the Euclidean distance between two points.
Dist2(p, q) == (p[1] - q[1]) * (p[1] - q[1]) + (p[2] - q[2]) * (p[2] - q[2])

\* KDTree.query(point): the index of a nearest point of the tree (any of
\* them when several are equally near), counted from 1 here.
TreeQuery(tree, point) ==
    {i \in DOMAIN tree.data :
        \A j \in DOMAIN tree.data :
            Dist2(tree.data[i], point) <= Dist2(tree.data[j], point)}

\* Hill.nearest(coords): the outcomes. Without a tree, Hill._tree.query is
\* an attribute of None: AttributeError. The distance is kept as its square.
nearest(cls, file, coords) ==
    LET r == EnsureLoaded(cls, file)
        point == <<coords.gridx, coords.gridy>>
    IN  IF r.raised # "" THEN {HillRaise(r.cls, r.raised)}
        ELSE IF ~r.cls.tree.built THEN {HillRaise(r.cls, "AttributeError")}
        ELSE {[cls |-> r.cls, raised |-> "", hill |-> i,
               dist2 |-> Dist2(r.cls.tree.data[i], point)] :
                  i \in TreeQuery(r.cls.tree, point)}

\* At most this many hills are constructed by hand before the file is loaded.
MaxNew == 2

Row(x, y, rank, hgt, id, name) ==
    [x |-> x, y |-> y, rank |-> rank, height |-> hgt, id |-> id, name |-> name]

BenNevis == <<"B", "e", "n", " ", "N", "e", "v", "i", "s">>
AonachBeag == <<"A", "o", "n", "a", "c", "h", " ", "B", "e", "a", "g">>
CarnDearg == <<"C", "a", "r", "n", " ", "D", "e", "a", "r", "g">>

\* hills.csv: whether its header has the six fields, and its rows, which are
\* ordered by rank. Two hills of the second file have the same name, and two
\* are equally far from some of the points below. The x of the second row
\* of the last file is not a number.
HillFiles ==
    {[header |-> TRUE,
      rows |-> <<Row(216666, 771288, 1, 1345, 278, BenNevis)>>],
     [header |-> TRUE,
      rows |-> <<Row(216666, 771288, 1, 1345, 278, BenNevis),
                 Row(219700, 771500, 2, 1234, 283, AonachBeag),
                 Row(215900, 772000, 3, 1221, 280, <<" ">> \o CarnDearg),
                 Row(217400, 772000, 4, 1020, 291, CarnDearg)>>],
     [header |-> FALSE,
      rows |-> <<Row(216666, 771288, 1, 1345, 278, BenNevis)>>],
     [header |-> TRUE,
      rows |-> <<Row(216666, 771288, 1, 1345, 278, BenNevis),
                 Row(NaN, 771500, 2, 1234, 283, AonachBeag)>>]}

\* Hills constructed by hand.
NewRows == {Row(216650, 771300, 1, 1400, 278, BenNevis),
            Row(216000, 771000, 7, 900, 9001, <<"T", "o", "r", " ">>)}
HillNames == {BenNevis, lower(BenNevis), CarnDearg, <<"T", "o", "r">>,
              <<"S", "n", "o", "w", "d", "o", "n">>}
HillIds == {278, 283, 291, 9001, 1}
HillRanks == {-5, -1, 0, 1, 2, 4, 5, 7}
HillPoints == {<<216600, 771300>>, <<216650, 772000>>, <<219000, 771000>>,
               <<216666, 771288>>}

HillInit ==
    /\ TerrainIdle
    /\ BngIdle
    /\ StoreIdle
    /\ RoomIdle
    /\ hillFile \in HillFiles
    /\ Hill = NoHills
    /\ hcall = NoHillCall

\* Hill(x, y, rank, height, hill_id, name), called from outside the class.
NewHill ==
    /\ Hill.tree.built \/ Len(Hill.hills) < MaxNew
    /\ \E row \in NewRows :
          LET r == Hill_init(Hill, row)
          IN  /\ Hill' = r.cls
              /\ hcall' = [NoHillCall EXCEPT !.op = "Hill", !.num = row.id,
                                             !.name = row.name,
                                             !.raised = r.raised]
    /\ UNCHANGED <<hillFile, seaVars, interpVars, bngVars, storeVars, roomVars>>

HillOutcome(op, name, num, at, r) ==
    /\ Hill' = r.cls
    /\ hcall' = [op |-> op, name |-> name, num |-> num, at |-> at,
                 raised |-> r.raised, hill |-> r.hill, dist2 |-> r.dist2]
    /\ UNCHANGED <<hillFile, seaVars, interpVars, bngVars, storeVars, roomVars>>

ByName ==
    \E name \in HillNames :
        HillOutcome("by_name", name, 0, <<0, 0>>, by_name(Hill, hillFile, name))
ById ==
    \E hill_id \in HillIds :
        HillOutcome("by_id", <<>>, hill_id, <<0, 0>>,
                    by_id(Hill, hillFile, hill_id))
ByRank ==
    \E rank \in HillRanks : \E optimised \in BOOLEAN :
        HillOutcome("by_rank", <<>>, rank, <<0, 0>>,
                    by_rank(Hill, hillFile, rank, optimised))
NearestHill ==
    \E at \in HillPoints :
        \E r \in nearest(Hill, hillFile, Coords(at[1], at[2])) :
            HillOutcome("nearest", <<>>, 0, at, r)

HillNext == NewHill \/ ByName \/ ById \/ ByRank \/ NearestHill

SpecHill == HillInit /\ [][HillNext]_vars

\* ------------------------------------------------------------ claims on Hill
\* C12: once the tree has been built, every Hill(...) raises ValueError and
\* leaves _hills, _names, _ids and _tree as they were.
C12_NoHillAfterTree ==
    [][(Hill.tree.built /\ hcall'.op = "Hill") =>
          (hcall'.raised = "ValueError" /\ Hill' = Hill)]_vars

\* A Hill(...) that was refused after the four hills of the file were loaded.
C12_Witness ==
    /\ hcall.op = "Hill"
    /\ hcall.raised = "ValueError"
    /\ Hill.tree.built
    /\ Len(Hill.hills) = 4

LookupErrors == {"KeyError", "IndexError"}
IsRank(cls, rank) == \E i \in DOMAIN cls.hills : cls.hills[i].rank = rank

\* C13: with the file loaded, by_name, by_id and by_rank on a name, id or
\* rank that no hill has raise a lookup error (KeyError or IndexError).
C13_UnknownIsLookupError ==
    hillFile.header =>
        /\ (hcall.op = "by_name" /\ lower(hcall.name) \notin DOMAIN Hill.names)
              => hcall.raised \in LookupErrors
        /\ (hcall.op = "by_id" /\ hcall.num \notin DOMAIN Hill.ids)
              => hcall.raised \in LookupErrors
        /\ (hcall.op = "by_rank" /\ ~IsRank(Hill, hcall.num))
              => hcall.raised \in LookupErrors

HillAt(cls, i) == <<cls.hills[i].x, cls.hills[i].y>>

\* C14: with a readable file, nearest(coords) returns a hill none is nearer
\* than, and its distance; the tree holds the hills' positions in the order
\* of _hills.
C14_NearestIsNearest ==
    (hcall.op = "nearest" /\ hillFile.header) =>
        /\ hcall.raised = ""
        /\ Len(Hill.tree.data) = Len(Hill.hills)
        /\ \A i \in DOMAIN Hill.hills : Hill.tree.data[i] = HillAt(Hill, i)
        /\ hcall.hill \in DOMAIN Hill.hills
        /\ hcall.dist2 = Dist2(HillAt(Hill, hcall.hill), hcall.at)
        /\ \A i \in DOMAIN Hill.hills :
              hcall.dist2 <= Dist2(HillAt(Hill, i), hcall.at)

\* ------------------------------------------------------------ download_os50, gb
\* A tile of the archive: an .asc file (path) in a nested zip (name). Its
\* header lines are read into numbers by header(); badline is the number of
\* the first header line that does not start with its field name (0: none).
\* rows are the data lines, the northernmost first; xll and yll are metres.
Tile(name, path, badline, xll, yll, ncols, nrows, cellsize, rows) ==
    [name |-> name, path |-> path, badline |-> badline, xll |-> xll,
     yll |-> yll, ncols |-> ncols, nrows |-> nrows, cellsize |-> cellsize,
     rows |-> rows]

\* The tile written into the array: heights[yll:yll + nrows,
\* xll:xll + ncols] = data[::-1, :]
Insert(tile, hh, res) ==
    LET xl == tile.xll \div res
        yl == tile.yll \div res
    IN  Array([c \in Cells |->
            IF /\ c[1] >= yl /\ c[1] < yl + tile.nrows
               /\ c[2] >= xl /\ c[2] < xl + tile.ncols
            THEN tile.rows[tile.nrows - (c[1] - yl)][c[2] - xl + 1]
            ELSE hh[c]])

\* (a variant: the cell size of a tile is not compared with the resolution)
read_asc_any_cellsize(tile, hh, res) ==
    IF tile.badline # 0
    THEN [hh |-> hh, raised |-> "Exception", msg |-> "Unexpected header line"]
    ELSE [hh |-> Insert(tile, hh, res), raised |-> "", msg |-> ""]

\* read_asc(handle, heights, resolution): the array with the tile written
\* into it, or the Exception it raises.
read_asc(tile, hh, res) ==
    IF tile.badline # 0
    THEN [hh |-> hh, raised |-> "Exception", msg |-> "Unexpected header line"]
    ELSE IF tile.cellsize # res
    THEN [hh |-> hh, raised |-> "Exception", msg |-> "Unexpected resolution"]
    ELSE [hh |-> Insert(tile, hh, res), raised |-> "", msg |-> ""]

\* extract() and read_nested_zip(): the tiles are read in the order of the
\* sorted names; an exception of read_asc is raised again with the tile's
\* path and the nested zip's name.
RECURSIVE extract(_, _, _, _)
extract(tiles, k, hh, res) ==
    IF k > Len(tiles)
    THEN [hh |-> hh, raised |-> "", msg |-> "", path |-> "", name |-> ""]
    ELSE LET r == read_asc(tiles[k], hh, res)
         IN  IF r.raised # ""
             THEN [hh |-> r.hh, raised |-> "Exception", msg |-> r.msg,
                   path |-> tiles[k].path, name |-> tiles[k].name]
             ELSE extract(tiles, k + 1, r.hh, res)

\* heights = np.empty((ny, nx)); heights.fill(np.nan)
EmptyArray == Array([c \in Cells |-> NaN])

\* heights[np.isnan(heights)] = -100
FillMissing(hh) == Array([c \in Cells |-> IF hh[c] = NaN THEN s ELSE hh[c]])

\* fix_sea_levels_in_odd_squares at the scale of the model: one square of
\* the kind view[view < 0.2] -= 10 and one of the kind view[view < 0.1] = -10.
LoweredSquare == {<<1, 1>>}
LevelledSquare == {<<ny - 2, nx - 2>>}
fix_sea_levels_in_odd_squares(hh) ==
    Array([c \in Cells |->
        IF c \in LoweredSquare /\ hh[c] < 20 THEN hh[c] - 1000
        ELSE IF c \in LevelledSquare /\ hh[c] < 10 THEN -1000
        ELSE hh[c]])

\* save_cambridgeshire at the scale of the model: heights[2, 3] = 0.01
Dams == {<<2, 3>>}
save_cambridgeshire(hh) ==
    Array([c \in Cells |-> IF c \in Dams THEN LandVal ELSE hh[c]])

\* The survey of the model: sea at 0 with an island, a shallow cell in the
\* lowered square, a low river cell where the dam is built, and no data in
\* one corner.
Survey(c) ==
    IF c = <<0, nx - 1>> THEN NaN
    ELSE IF c = <<1, 1>> THEN 15
    ELSE IF c = <<2, 2>> THEN 500
    ELSE IF c = <<2, 3>> THEN -5
    ELSE IF c = <<3, 2>> THEN 120
    ELSE 0

\* The data lines of a tile cut from the survey: northernmost row first.
TileRows(xl, yl, ncols, nrows) ==
    [i \in 1 .. nrows |->
        [j \in 1 .. ncols |-> Survey(<<yl + nrows - i, xl + j - 1>>)]]

\* Columns of the western of the two tiles.
WestCols == nx \div 2
WestTile(badline, cellsize) ==
    Tile("data/sv/sv00.zip", "SV00.asc", badline, 0, 0, WestCols, ny,
         cellsize, TileRows(0, 0, WestCols, ny))
EastTile(badline, cellsize) ==
    Tile("data/sv/sv10.zip", "SV10.asc", badline, WestCols * resolution, 0,
         nx - WestCols, ny, cellsize, TileRows(WestCols, 0, nx - WestCols, ny))

\* A tile with another reading in the data line of raster cell c.
Sounded(tile, c, v) ==
    [tile EXCEPT !.rows[tile.nrows - (c[1] - tile.yll \div resolution)]
                       [c[2] - tile.xll \div resolution + 1] = v]

\* The archives terr50_gagg_gb.zip can be: a sound one, one whose second
\* tile has a wrong header line, one whose first tile has another cell size,
\* one with a reading of -100 m, one with a reading of -90 m in the square
\* that fix_sea_levels_in_odd_squares lowers by 10 m.
SoundArchive == <<WestTile(0, resolution), EastTile(0, resolution)>>
Archives == {SoundArchive,
             <<WestTile(0, resolution), EastTile(3, resolution)>>,
             <<WestTile(0, 2 * resolution), EastTile(0, resolution)>>,
             <<Sounded(WestTile(0, resolution), <<3, 1>>, s),
               EastTile(0, resolution)>>,
             <<Sounded(WestTile(0, resolution), <<1, 1>>, s + 1000),
               EastTile(0, resolution)>>}

\* The raster a cold build makes of an archive that can be read.
Reconciled(hh) ==
    add_sea_slope(set_sea_level(
        save_cambridgeshire(fix_sea_levels_in_odd_squares(FillMissing(hh))),
        s), s)

\* ------------------------------------------------------------ the process
\* The two modules with a gb(): nevis._os50, which the package exports, and
\* nevis._data. A process uses one of them, with the data directory and the
\* module attribute _heights of that module.
Modules == {"_os50", "_data"}
\* At most this many builds in one process.
MaxBuilds == 2

\* The data directory when the process starts: nothing, or the directory
\* with the archive, the cache file of an earlier build, or both.
Disks ==
    {NoDisk} \cup
    { [dir |-> TRUE, zip |-> z, npy |-> n] :
        z \in {NoDisk.zip} \cup { [present |-> TRUE, tiles |-> a] : a \in Archives },
        n \in {NoDisk.npy,
               [present |-> TRUE,
                data |-> Reconciled(extract(SoundArchive, 1, EmptyArray, resolution).hh)]} }

StoreInit ==
    /\ TerrainIdle
    /\ BngIdle
    /\ HillIdle
    /\ InterpIdle
    /\ RoomIdle
    /\ disk \in Disks
    /\ os50 = NoArrays
    /\ \E m \in Modules : run = [NoRun EXCEPT !.module = m]
    /\ gcall = NoGbCall

\* The outcome of a call: what it returned, what it raised.
Returned(op, arg, view) ==
    [NoGbCall EXCEPT !.op = op, !.arg = arg, !.status = "returned", !.ret = view]
Raised(op, arg, class, msg) ==
    [NoGbCall EXCEPT !.op = op, !.arg = arg, !.status = "raised",
                     !.raised = class, !.msg = msg]
Running(op, arg) ==
    [NoGbCall EXCEPT !.op = op, !.arg = arg, !.status = "running"]

\* A new array in memory; writeable unless setflags(write=False) was called.
NewArray(mem, data, writeable) ==
    [heights |-> Len(mem.arrays) + 1,
     arrays |-> Append(mem.arrays, [data |-> data, writeable |-> writeable])]

\* heights[::downsampling, ::downsampling]: a view of the array, which
\* shares its memory and its flags.
Sliced(base, n) == [base |-> base, step |-> n]
Whole(base) == Sliced(base, 1)
\* The cells of a view, and the cell of the base array a cell of it is.
ViewCells(view) ==
    { c \in Cells : c[1] * view.step < ny /\ c[2] * view.step < nx }
BaseCell(view, c) == <<c[1] * view.step, c[2] * view.step>>
\* The values a caller reads in what it was handed.
Contents(mem, view) ==
    [c \in ViewCells(view) |-> mem.arrays[view.base].data[BaseCell(view, c)]]

\* gb() of _os50.py, lines 83-89: the return, once _heights is set.
gb_return(mem, downsampling) ==
    IF downsampling # Absent /\ downsampling[1] > 1
    THEN Sliced(mem.heights, downsampling[1])
    ELSE Whole(mem.heights)

\* (a variant: the cache file is read at every call)
NeverLoaded(mem) == TRUE
\* _heights is None
NotLoaded(mem) == mem.heights = 0

\* gb(downsampling) of _os50.py.
Downsamplings == {Absent, Given(1), Given(2)}
Gb(downsampling) ==
    /\ run.module = "_os50"
    /\ run.pc = "idle"
    /\ IF NotLoaded(os50) /\ ~disk.npy.present
       THEN /\ gcall' = Raised("gb", downsampling, "DataNotFoundError",
                               "OS Terrain 50 data not found")
            /\ UNCHANGED <<os50, run>>
       ELSE LET load == NotLoaded(os50)
                mem == IF load THEN NewArray(os50, disk.npy.data, FALSE)
                       ELSE os50
                view == gb_return(mem, downsampling)
            IN  /\ os50' = mem
                /\ gcall' = Returned("gb", downsampling, view)
                /\ run' = [run EXCEPT
                       !.loads = IF load THEN @ + 1 ELSE @,
                       !.first = IF @ = NoReturn THEN view ELSE @]
    /\ UNCHANGED <<disk, seaVars, interpVars, bngVars, hillVars, roomVars>>

\* download_os50(force) of _os50.py, up to the prompt (lines 102-134) or, if
\* the archive is there, up to the build (line 144).
DownloadOs50(force) ==
    /\ run.module = "_os50"
    /\ run.pc = "idle"
    /\ IF (~force) /\ disk.npy.present
       THEN /\ gcall' = Returned("download_os50", Given(IF force THEN 1 ELSE 0), NoReturn)
            /\ UNCHANGED run
       ELSE /\ run.builds < MaxBuilds
            /\ gcall' = Running("download_os50", Given(IF force THEN 1 ELSE 0))
            /\ run' = [run EXCEPT
                   !.force = force,
                   !.make_dirs = ~disk.dir,
                   !.builds = @ + 1,
                   !.log = <<>>,
                   !.pc = IF force \/ ~disk.zip.present THEN "prompt"
                          ELSE "extract"]
    /\ UNCHANGED <<disk, os50, seaVars, interpVars, bngVars, hillVars, roomVars>>

\* gb(downsampling) of _data.py, up to the prompt of download() or, if the
\* archive is there, up to the build; or all of it, if there is a raster in
\* memory or in the cache file.
gb_finish(mem, downsampling) ==
    IF downsampling # Absent /\ downsampling[1] > 1
    THEN Raised("gb", downsampling, "AttributeError",
                "module 'nevis' has no attribute '_heights_downsampling'")
    ELSE Returned("gb", downsampling, Whole(mem.heights))
RememberFirst(r, outcome) ==
    [r EXCEPT !.first = IF @ = NoReturn /\ outcome.status = "returned"
                        THEN outcome.ret ELSE @]
LegacyGb(downsampling) ==
    /\ run.module = "_data"
    /\ run.pc = "idle"
    /\ IF ~NotLoaded(os50)
       THEN /\ gcall' = gb_finish(os50, downsampling)
            /\ run' = RememberFirst(run, gcall')
            /\ UNCHANGED os50
       ELSE IF disk.npy.present
       THEN /\ os50' = NewArray(os50, disk.npy.data, TRUE)
            /\ gcall' = gb_finish(os50', downsampling)
            /\ run' = RememberFirst([run EXCEPT !.loads = @ + 1], gcall')
       ELSE /\ run.builds < MaxBuilds
            /\ gcall' = Running("gb", downsampling)
            /\ run' = [run EXCEPT
                   !.builds = @ + 1,
                   !.log = <<>>,
                   !.pc = IF disk.zip.present THEN "extract" ELSE "prompt"]
            /\ UNCHANGED os50
    /\ UNCHANGED <<disk, seaVars, interpVars, bngVars, hillVars, roomVars>>

\* The user's answer to input('Continue? (y/n) '), and what follows a
\* refusal: download_os50 prints Halted and returns, download() of _data.py
\* calls sys.exit(1).
Answers == {<<"y">>, <<"Y", "E", "S">>, <<"n">>, <<>>}
Confirms(yesno) == lower(yesno) \in {<<"y">>, <<"y", "e", "s">>}
Answer(yesno) ==
    /\ run.pc = "prompt"
    /\ IF Confirms(yesno)
       THEN /\ run' = [run EXCEPT !.pc = "download"]
            /\ UNCHANGED gcall
       ELSE IF run.module = "_os50"
       THEN /\ run' = [run EXCEPT !.pc = "idle"]
            /\ gcall' = [gcall EXCEPT !.status = "returned", !.msg = "Halted."]
       ELSE /\ run' = [run EXCEPT !.pc = "exited"]
            /\ gcall' = [gcall EXCEPT !.status = "exit", !.msg = "Aborting...",
                                      !.exit = 1]
    /\ UNCHANGED <<disk, os50, seaVars, interpVars, bngVars, hillVars, roomVars>>

\* os.makedirs and download_gagg (_os50.py), or the rest of download()
\* (_data.py): the archive is fetched and written, or urlopen fails, or, in
\* _data.py, there is no directory to write to.
DownloadGagg(fetched) ==
    /\ run.pc = "download"
    /\ LET made == disk.dir \/ (run.module = "_os50" /\ run.make_dirs)
       IN  IF fetched = <<>>
           THEN /\ disk' = [disk EXCEPT !.dir = made]
                /\ run' = [run EXCEPT !.pc = "idle"]
                /\ gcall' = [gcall EXCEPT !.status = "raised",
                                          !.raised = "URLError"]
           ELSE IF ~made
           THEN /\ run' = [run EXCEPT !.pc = "idle"]
                /\ gcall' = [gcall EXCEPT !.status = "raised",
                                          !.raised = "FileNotFoundError"]
                /\ UNCHANGED disk
           ELSE /\ disk' = [disk EXCEPT !.dir = TRUE,
                                !.zip = [present |-> TRUE, tiles |-> fetched]]
                /\ run' = [run EXCEPT !.pc = "extract"]
                /\ UNCHANGED gcall
    /\ UNCHANGED <<os50, seaVars, interpVars, bngVars, hillVars, roomVars>>

\* (a variant: the cache file is written before the sea is reconciled)
StepsSavedEarly == <<"extract", "fill", "fix_sea_levels_in_odd_squares",
                     "save_cambridgeshire", "save", "set_sea_level",
                     "add_sea_slope", "store">>
\* The steps of a build in the order of the code, from the new array to the
\* assignment to _heights.
Steps == <<"extract", "fill", "fix_sea_levels_in_odd_squares",
           "save_cambridgeshire", "set_sea_level", "add_sea_slope",
           "save", "store">>
Position(step) == CHOOSE i \in 1 .. Len(Steps) : Steps[i] = step
After(step) == Steps[Position(step) + 1]
Done(step) == [run EXCEPT !.pc = After(step), !.log = Append(@, step)]

\* heights = np.empty(...); heights.fill(np.nan); extract(...): every tile
\* is read, or the exception of the first tile that cannot be read ends the
\* outcome.
Extract ==
    /\ run.pc = "extract"
    /\ LET r == extract(disk.zip.tiles, 1, EmptyArray, resolution)
       IN  IF r.raised # ""
           THEN /\ run' = [run EXCEPT !.pc = "idle", !.work = NoData]
                /\ gcall' = [gcall EXCEPT !.status = "raised",
                                 !.raised = r.raised, !.msg = r.msg,
                                 !.path = r.path, !.name = r.name]
           ELSE /\ run' = [Done("extract") EXCEPT !.work = r.hh]
                /\ UNCHANGED gcall
    /\ UNCHANGED <<disk, os50, seaVars, interpVars, bngVars, hillVars, roomVars>>

\* One of the five steps that change the new array in place.
Change(step, hh) ==
    IF step = "fill" THEN FillMissing(hh)
    ELSE IF step = "fix_sea_levels_in_odd_squares"
    THEN fix_sea_levels_in_odd_squares(hh)
    ELSE IF step = "save_cambridgeshire" THEN save_cambridgeshire(hh)
    ELSE IF step = "set_sea_level" THEN set_sea_level(hh, s)
    ELSE add_sea_slope(hh, s)
Reconcile ==
    /\ run.pc \in {"fill", "fix_sea_levels_in_odd_squares",
                   "save_cambridgeshire", "set_sea_level", "add_sea_slope"}
    /\ run' = [Done(run.pc) EXCEPT !.work = Change(run.pc, run.work)]
    /\ UNCHANGED <<disk, os50, gcall, seaVars, interpVars, bngVars, hillVars, roomVars>>

\* np.save(terrain_file_npy, heights)
Save ==
    /\ run.pc = "save"
    /\ disk' = [disk EXCEPT !.npy = [present |-> TRUE, data |-> run.work]]
    /\ run' = Done("save")
    /\ UNCHANGED <<os50, gcall, seaVars, interpVars, bngVars, hillVars, roomVars>>

\* _heights = heights, and the return: of download_os50, or of the gb() of
\* _data.py that made the build.
Store ==
    /\ run.pc = "store"
    /\ os50' = NewArray(os50, run.work, TRUE)
    /\ gcall' = IF run.module = "_os50"
                THEN [gcall EXCEPT !.status = "returned"]
                ELSE gb_finish(os50', gcall.arg)
    /\ run' = RememberFirst([run EXCEPT !.pc = "idle", !.work = NoData,
                                        !.log = Append(@, "store")], gcall')
    /\ UNCHANGED <<disk, seaVars, interpVars, bngVars, hillVars, roomVars>>

\* A caller assigns np.nan to a cell of the array the last gb() returned:
\* numpy raises ValueError if the array is not writeable.
WriteCells == {<<0, 0>>, <<1, 1>>}
Write(c) ==
    /\ run.pc = "idle"
    /\ gcall.ret # NoReturn
    /\ c \in ViewCells(gcall.ret)
    /\ IF os50.arrays[gcall.ret.base].writeable
       THEN /\ os50' = [os50 EXCEPT !.arrays[gcall.ret.base].data =
                           Array([@ EXCEPT ![BaseCell(gcall.ret, c)] = NaN])]
            /\ gcall' = [gcall EXCEPT !.op = "write", !.status = "returned"]
       ELSE /\ gcall' = [gcall EXCEPT !.op = "write", !.status = "raised",
                             !.raised = "ValueError",
                             !.msg = "assignment destination is read-only"]
            /\ UNCHANGED os50
    /\ UNCHANGED <<disk, run, seaVars, interpVars, bngVars, hillVars, roomVars>>

StoreNext ==
    \/ \E downsampling \in Downsamplings : Gb(downsampling)
    \/ \E force \in BOOLEAN : DownloadOs50(force)
    \/ \E downsampling \in Downsamplings : LegacyGb(downsampling)
    \/ \E yesno \in Answers : Answer(yesno)
    \/ \E fetched \in Archives \cup {<<>>} : DownloadGagg(fetched)
    \/ Extract
    \/ Reconcile
    \/ Save
    \/ Store
    \/ \E c \in WriteCells : Write(c)

SpecStore == StoreInit /\ [][StoreNext]_vars


\* ------------------------------------------------------------ _spiral_squares
\* Rasters of up to MaxSide rows and columns, squares of up to MaxSide.
MaxSide == 6
Shapes == (1 .. MaxSide) \X (1 .. MaxSide)

SpiralInit ==
    /\ \E shape \in Shapes : \E dd \in 1 .. MaxSide :
          tiling = [rows |-> shape[1], cols |-> shape[2], side |-> dd,
                    returned |-> FALSE, squares |-> <<>>]
    /\ user = NewUser
    /\ conn = NoConn
    /\ TerrainIdle
    /\ BngIdle
    /\ HillIdle
    /\ StoreIdle

\* _spiral_squares(heights, d) on a raster of tiling.rows by tiling.cols.
SpiralSquares ==
    /\ ~tiling.returned
    /\ tiling' = [tiling EXCEPT
                    !.returned = TRUE,
                    !.squares = spiral_squares(tiling.rows, tiling.cols,
                                               tiling.side)]
    /\ UNCHANGED <<user, conn, seaVars, interpVars, bngVars, hillVars,
                   storeVars>>

SpecSpiral == SpiralInit /\ [][SpiralSquares]_vars


\* ------------------------------------------------------------ server.py
\* The evaluations a user may ask for (100000 in the source, server.py line
\* 13), scaled to the sessions of the model.
MAX_EVALS == 3
\* ask_heights comes with up to this many xs and ys, and a user sends up to
\* this many means.
MaxBatch == 2
MaxMeans == 1

\* Mystery coordinates a client sends: the points of ask_height, the xs and
\* the ys of ask_heights, and the point of mean and final_answer. The user
\* object has drawn the translation below and a rotation of zero.
Mystery == {<<0, 0>>, <<50, 100>>}
Batches(n) == [1 .. n -> {0}]
Landing == <<50, 100>>
Translations == {<<-50, 25>>}

\* user.mystery_to_grid(x, y), with the centre of the grid as the centre of
\* the rotation.
mystery_to_grid(u, p) ==
    <<p[1] - u.translation[1] + width \div 2,
      p[2] - u.translation[2] + height \div 2>>

\* connection.q(name, ...): the message queued for the client. An image
\* message is counted.
Queue(name, text) ==
    [name |-> "", queued |-> name, text |-> text, raised |-> "",
     images |-> [k \in DOMAIN conn.images |->
                   IF name = "send_" \o k THEN conn.images[k] + 1
                   ELSE conn.images[k]]]
Error(text) == Queue("error", text)
Except(e) ==
    [name |-> "", queued |-> "", text |-> "", raised |-> e,
     images |-> conn.images]
Handled(name, outcome) == conn' = [outcome EXCEPT !.name = name]

AlreadyGiven == "Final answer already given."
LimitReached == "Maximum number of evaluations reached ({MAX_EVALS})."
NeededFirst == "Final answer needed first."

\* (a variant: ask_heights tests the limit as ask_height does)
AtLimit(n_evals, n) == n_evals >= MAX_EVALS
\* user.n_evals + n > MAX_EVALS
OverLimit(n_evals, n) == n_evals + n > MAX_EVALS

\* (a variant: a figure is made again whenever it is asked for)
MayPlotAgain(u, flag) == TRUE
\* not (user.map_full_sent), and the same for the other two figures
MayPlot(u, flag) == ~u[flag]

\* The loop of ask_heights: the points appended to user.points.
RECURSIVE GridPoints(_, _, _, _)
GridPoints(u, xs, ys, i) ==
    IF i > Len(xs) \/ i > Len(ys) THEN <<>>
    ELSE <<mystery_to_grid(u, <<xs[i], ys[i]>>)>> \o GridPoints(u, xs, ys, i + 1)

ServerInit ==
    /\ \E translation \in Translations :
          user = [NewUser EXCEPT !.translation = translation]
    /\ conn = NoConn
    /\ tiling = NoTiling
    /\ TerrainIdle
    /\ BngIdle
    /\ HillIdle
    /\ StoreIdle

otherVars == <<tiling, seaVars, interpVars, bngVars, hillVars, storeVars>>

\* handle(connection, message) for message.name == 'ask_height'
AskHeight ==
    /\ \E p \in Mystery :
          IF user.has_finished
          THEN Handled("ask_height", Error(AlreadyGiven)) /\ UNCHANGED user
          ELSE IF user.n_evals >= MAX_EVALS
          THEN Handled("ask_height", Error(LimitReached)) /\ UNCHANGED user
          ELSE /\ user' = [user EXCEPT
                             !.n_evals = @ + 1,
                             !.points = <<Append(@[1], mystery_to_grid(user, p))>>]
               /\ Handled("ask_height", Queue("send_height", ""))
    /\ UNCHANGED otherVars

\* handle(connection, message) for message.name == 'ask_heights'
AskHeights ==
    /\ \E nxs, nys \in 0 .. MaxBatch :
        \E xs \in Batches(nxs) : \E ys \in Batches(nys) :
          IF user.has_finished
          THEN Handled("ask_heights", Error(AlreadyGiven)) /\ UNCHANGED user
          ELSE IF Len(ys) # Len(xs)
          THEN /\ Handled("ask_heights",
                          Queue("X and Y array must have same length.", ""))
               /\ UNCHANGED user
          ELSE IF OverLimit(user.n_evals, Len(xs))
          THEN Handled("ask_heights", Error(LimitReached)) /\ UNCHANGED user
          ELSE /\ user' = [user EXCEPT
                             !.n_evals = @ + Len(xs),
                             !.points = <<@[1] \o GridPoints(user, xs, ys, 1)>>]
               /\ Handled("ask_heights", Queue("send_heights", ""))
    /\ UNCHANGED otherVars

\* handle(connection, message) for message.name == 'mean'
Mean ==
    /\ user.has_finished \/ Len(user.trajectory) < MaxMeans
    /\ \E p \in {Landing} :
          IF user.has_finished
          THEN Handled("mean", Error(AlreadyGiven)) /\ UNCHANGED user
          ELSE /\ user' = [user EXCEPT
                             !.trajectory = Append(@, mystery_to_grid(user, p))]
               /\ Handled("mean", [NoConn EXCEPT !.images = conn.images])
    /\ UNCHANGED otherVars

\* handle(connection, message) for message.name == 'final_answer'. found:
\* Hill.nearest returns a hill; it raises when the hills cannot be loaded,
\* after has_finished and c have been set.
FinalAnswer ==
    /\ \E p \in {Landing} : \E found \in BOOLEAN :
          IF user.has_finished
          THEN Handled("final_answer", Error(AlreadyGiven)) /\ UNCHANGED user
          ELSE LET at == mystery_to_grid(user, p)
                   landed == [user EXCEPT !.has_finished = TRUE, !.c = <<at>>]
               IN  IF ~found
                   THEN /\ user' = landed
                        /\ Handled("final_answer", Except("Exception"))
                   ELSE /\ user' = [landed EXCEPT
                                      !.hd = <<"hill">>,
                                      !.points = IF user.trajectory # <<>>
                                                 THEN @ ELSE <<>>,
                                      !.trajectory = IF @ # <<>> THEN @
                                                     ELSE user.points[1]]
                        /\ Handled("final_answer", Queue("final_result", ""))
    /\ UNCHANGED otherVars

\* handle(connection, message) for the three figures: message ask_<figure>,
\* flag <figure>_sent, reply send_<figure>. "h, d = user.hd" raises
\* TypeError when no hill was found.
AskFigure(figure) ==
    LET name == "ask_" \o figure
        flag == figure \o "_sent"
    IN  /\ IF ~user.has_finished
           THEN Handled(name, Error(NeededFirst)) /\ UNCHANGED user
           ELSE IF ~MayPlot(user, flag)
           THEN Handled(name, Error(figure \o " already sent")) /\ UNCHANGED user
           ELSE /\ user' = [user EXCEPT ![flag] = TRUE]
                /\ IF user.hd = <<>> THEN Handled(name, Except("TypeError"))
                   ELSE Handled(name, Queue("send_" \o figure, ""))
        /\ UNCHANGED otherVars
AskMapFull == AskFigure("map_full")
AskMapZoom == AskFigure("map_zoom")
AskLinePlot == AskFigure("line_plot")

\* handle(connection, message) for any other message
Unexpected ==
    /\ Handled("hello", Except("Exception"))
    /\ UNCHANGED user
    /\ UNCHANGED otherVars

ServerNext ==
    \/ AskHeight
    \/ AskHeights
    \/ Mean
    \/ FinalAnswer
    \/ AskMapFull
    \/ AskMapZoom
    \/ AskLinePlot
    \/ Unexpected

SpecServer == ServerInit /\ [][ServerNext]_vars

\* ------------------------------------------------------------ claims on gb
\* C15, as the specification states it: once a gb() has returned, every
\* later gb() returns that same array in memory, and the cache file is not
\* read again.
C15_SameObjectForEver ==
    [][(run.first # NoReturn /\ gcall'.op = "gb" /\ gcall'.status = "returned")
          => (gcall'.ret.base = run.first.base /\ run'.loads = run.loads)]_vars

\* C15: once a gb() has returned, every later gb() returns the array that
\* _heights holds when it is called and does not read the cache file; and
\* _heights, once set, is assigned again only by the last step of a build.
C15_SameObjectUntilRebuilt ==
    [][/\ (run.first # NoReturn /\ gcall'.op = "gb" /\ gcall'.status = "returned")
          => (gcall'.ret.base = os50.heights /\ run'.loads = run.loads)
       /\ (os50.heights # 0 /\ os50'.heights # os50.heights)
          => (run.pc = "store" /\ run.force)]_vars
\* A gb() after a forced build returned the new array, without reading the
\* cache file; the first gb() had returned the array it had read.
C15_Witness ==
    /\ gcall.op = "gb"
    /\ gcall.status = "returned"
    /\ run.first.base = 1
    /\ run.loads = 1
    /\ ~os50.arrays[1].writeable
    /\ gcall.ret.base = 2

\* A gb() has ended (returned or raised) and there is a raster in memory.
GbEnded(outcome, mem) ==
    /\ outcome.op = "gb"
    /\ outcome.status \in {"returned", "raised"}
    /\ mem.heights # 0
IsDownsampled(outcome) == outcome.arg # Absent /\ outcome.arg[1] > 1
\* The array in memory that _heights names has every row and column.
FullRaster(mem) == DOMAIN mem.arrays[mem.heights].data = Cells

\* C16: a gb(downsampling=N) with N > 1 returns every Nth row and column of
\* the raster in _heights and leaves _heights as it was, a full raster; a
\* gb() without downsampling returns the full raster.
C16_DownsamplingKeepsFullRaster ==
    [][GbEnded(gcall', os50') =>
          /\ gcall'.status = "returned"
          /\ gcall'.ret = [base |-> os50'.heights,
                           step |-> IF IsDownsampled(gcall')
                                    THEN gcall'.arg[1] ELSE 1]
          /\ os50.heights # 0 => os50'.heights = os50.heights
          /\ FullRaster(os50')]_vars

\* C17: the array a gb() hands to its caller cannot be written to, and an
\* assignment to one of its cells is refused.
C17_ReturnedRasterIsReadOnly ==
    /\ (gcall.op = "gb" /\ gcall.status = "returned")
          => ~os50.arrays[gcall.ret.base].writeable
    /\ gcall.op = "write" => gcall.raised = "ValueError"

\* ------------------------------------------------------------ claims on the build
\* The user is asked, there is no archive, and the answer is not a yes.
Refusal == run.pc = "prompt" /\ ~disk.zip.present /\ run'.pc # "download"

\* C18: when the archive is absent and the user does not confirm, the
\* process exits with a status that is not zero, and no file and no array
\* is made or changed.
C18_RefusalIsFatal ==
    [][Refusal => /\ run'.pc = "exited"
                  /\ gcall'.status = "exit"
                  /\ gcall'.exit # 0
                  /\ disk' = disk
                  /\ os50' = os50]_vars

\* The tiles of an archive that read_asc refuses, by their place in it.
BadTiles(tiles) ==
    { i \in DOMAIN tiles :
        tiles[i].badline # 0 \/ tiles[i].cellsize # resolution }
FirstBad(tiles) ==
    CHOOSE i \in BadTiles(tiles) : \A j \in BadTiles(tiles) : i <= j

\* C19: when a tile of the archive has a wrong header line or another cell
\* size, the build ends at the extraction with an exception that names the
\* path of that tile and the nested archive it is in; the cache file, the
\* archive and the arrays in memory stay as they were.
C19_BadTileAbortsBuild ==
    [][(run.pc = "extract" /\ BadTiles(disk.zip.tiles) # {}) =>
          LET tile == disk.zip.tiles[FirstBad(disk.zip.tiles)]
          IN  /\ run'.pc = "idle"
              /\ gcall'.status = "raised"
              /\ gcall'.raised = "Exception"
              /\ gcall'.path = tile.path
              /\ gcall'.name = tile.name
              /\ gcall'.msg = IF tile.badline # 0 THEN "Unexpected header line"
                              ELSE "Unexpected resolution"
              /\ disk' = disk
              /\ os50' = os50]_vars
\* A forced build over an archive whose first tile has another cell size
\* was aborted: the earlier cache file and the raster read from it remain.
C19_Witness ==
    /\ gcall.op = "download_os50"
    /\ gcall.raised = "Exception"
    /\ gcall.msg = "Unexpected resolution"
    /\ gcall.path = "SV00.asc"
    /\ gcall.name = "data/sv/sv00.zip"
    /\ disk.npy.present
    /\ os50.heights = 1
    /\ Len(os50.arrays) = 1

\* The four steps of the reconciliation, in the order of the specification,
\* and those of them a build has run so far, in the order it ran them.
Reconciliation == <<"fix_sea_levels_in_odd_squares", "save_cambridgeshire",
                    "set_sea_level", "add_sea_slope">>
IsReconciliation(step) == \E i \in DOMAIN Reconciliation : Reconciliation[i] = step
Ran(log) == SelectSeq(log, IsReconciliation)
Saved(log) == \E i \in DOMAIN log : log[i] = "save"

\* C20: a build runs the four steps in the order anomaly correction, dams,
\* set_sea_level, add_sea_slope, none of them twice; it writes the cache
\* file after all four, and what it writes is the extracted raster with the
\* missing values filled and the four steps applied in that order.
C20_StepsOnceInOrderThenSave ==
    /\ [](\E k \in 0 .. Len(Reconciliation) :
             Ran(run.log) = SubSeq(Reconciliation, 1, k))
    /\ []((Saved(run.log) \/ run.pc = "save") => Ran(run.log) = Reconciliation)
    /\ [][disk'.npy # disk.npy =>
             /\ Ran(run.log) = Reconciliation
             /\ disk'.npy.present
             /\ disk'.npy.data =
                    Reconciled(extract(disk.zip.tiles, 1, EmptyArray, resolution).hh)]_vars
\* A cold build by download_os50 has written the cache file and is about to
\* assign _heights.
C20_Witness ==
    /\ run.module = "_os50"
    /\ run.pc = "store"
    /\ ~run.force
    /\ os50.heights = 0
    /\ Ran(run.log) = Reconciliation
    /\ disk.npy.present
    /\ disk.npy.data = run.work
    /\ run.work[<<2, 3>>] = LandVal

\* The cells of the archive's tiles that hold a reading (not a missing
\* value), and the steps of a build between the extraction and set_sea_level.
RealData(tiles) ==
    LET got == extract(tiles, 1, EmptyArray, resolution).hh
    IN  {c \in Cells : got[c] # NaN}
BeforeMask == {"fill", "fix_sea_levels_in_odd_squares", "save_cambridgeshire",
               "set_sea_level"}

\* C21: from the extraction until set_sea_level runs, no cell that holds a
\* reading of the archive equals the sentinel s.
C21_NoReadingIsSentinel ==
    run.pc \in BeforeMask => \A c \in RealData(disk.zip.tiles) : run.work[c] # s

\* ------------------------------------------------------------ claims on the loops
\* Caps on the passes of set_sea_level and on the loop on one square: those
\* of the code, and smaller ones that a raster of the model's size reaches.
Caps == {<<1, 1>>, <<2, kmax>>, <<zmax, kmax>>}
\* Sides of the squares: the one of the model, and one square for the whole
\* raster.
WholeGrid == Max(ny, nx)
Sides == {d, WholeGrid}
StopReasons == {"no squares", "unchanged", "zmax"}

\* C22: set_sea_level ends, for the caps of the code and for smaller ones,
\* after at most cap passes: because no square is left, because a pass
\* changed nothing, or because the cap is reached; in each case it leaves a
\* raster, and the one it leaves at the cap add_sea_slope then takes.
C22_SeaLevelStops ==
    phase \in {"masked", "masked2"} =>
        \A cap \in Caps : \A dd \in Sides :
              LET r == set_sea_level_tiled(entry, s, dd, cap[1], cap[2])
              IN  /\ (cap = <<zmax, kmax>> /\ dd = d) => heights = r.hh
                  /\ r.z + 1 <= cap[1]
                  /\ r.stop \in StopReasons
                  /\ r.stop = "zmax" => r.z + 1 = cap[1]
                  /\ DOMAIN r.hh = Cells
                  /\ r.stop = "zmax" => DOMAIN add_sea_slope(r.hh, s) = Cells
\* set_sea_level has run on a raster of which one pass of one step on one
\* square for the whole raster does not find all the sea: with those caps it
\* ends at the cap, short of the mask; with the caps of the code it ended
\* because a pass changed nothing, and with a cap of two passes at the cap.
C22_Witness ==
    /\ phase = "masked"
    /\ set_sea_level_run(entry, s).stop = "unchanged"
    /\ set_sea_level_tiled(entry, s, d, 2, kmax).stop = "zmax"
    /\ LET r == set_sea_level_tiled(entry, s, WholeGrid, 1, 1)
       IN  r.stop = "zmax" /\ r.hh # heights

\* The frontier of add_sea_slope after k iterations of its loop body on the
\* raster hh with first frontier fr.
RECURSIVE FrontierAfter(_, _, _, _)
FrontierAfter(hh, fr, sv, k) ==
    IF k = 0 THEN fr
    ELSE LET r == SlopeStep(hh, fr, sv)
         IN  FrontierAfter(r.hh, r.next, sv, k - 1)

\* C23: the loop of add_sea_slope makes at most ny * nx iterations, and its
\* last iteration is the first that leaves an empty frontier, if there is
\* one among the first ny * nx.
C23_SlopeLoopStops ==
    phase \in {"sloped", "sloped2"} =>
        LET n == add_sea_slope_loop(entry, s).n
            h0 == SlopeStart(entry, s)
            fr == Coast(entry, s)
        IN  /\ n >= 1
            /\ n <= ny * nx
            /\ \A k \in 1 .. n - 1 : FrontierAfter(h0, fr, s, k) # {}
            /\ n < ny * nx => FrontierAfter(h0, fr, s, n) = {}
            /\ heights = ShiftBack(add_sea_slope_loop(entry, s).hh, s)
\* add_sea_slope has run on a raster with sea three cells from the coast:
\* the loop ended at its third iteration, on an empty frontier.
C23_Witness ==
    /\ phase = "sloped"
    /\ add_sea_slope_loop(entry, s).n = 3
    /\ FrontierAfter(SlopeStart(entry, s), Coast(entry, s), s, 2) # {}
    /\ FrontierAfter(SlopeStart(entry, s), Coast(entry, s), s, 3) = {}

\* The numbers of passes a run is cut at: the code makes zmax = 100 passes
\* over up to 175 x 325 squares of the full raster; on a raster of
\* WholeGrid cells a side, 1 and 2 passes are in the same proportion.
PassCaps == {1, 2, zmax}
TileSides == 1 .. WholeGrid

\* C24: the raster set_sea_level leaves is the same for every side of the
\* squares, and the same as with one square for the whole raster, whatever
\* the number of passes the run is cut at.
C24_MaskIndependentOfTiles ==
    phase \in {"masked", "masked2"} =>
        \A cap \in PassCaps : \A dd \in TileSides :
            set_sea_level_tiled(entry, s, dd, cap, kmax).hh
                = set_sea_level_tiled(entry, s, WholeGrid, cap, kmax).hh

\* ------------------------------------------------------------ claims on the squares
\* The cells (x, y) of the square of side dd with lower-left corner sq, and
\* the cells of a raster.
TileCells(sq, dd) == (sq[1] .. sq[1] + dd - 1) \X (sq[2] .. sq[2] + dd - 1)
RasterCells(rows, cols) == (0 .. cols - 1) \X (0 .. rows - 1)
\* Both dimensions of the raster are multiples of the side.
Multiple == tiling.rows % tiling.side = 0 /\ tiling.cols % tiling.side = 0
\* The ring of squares a square lies in, counted from the border, when the
\* dimensions are multiples of the side.
Ring(sq) ==
    Min(Min(sq[1], sq[2]),
        Min(tiling.cols - tiling.side - sq[1],
            tiling.rows - tiling.side - sq[2])) \div tiling.side
Apart(p, q) ==
    Max(IF p[1] > q[1] THEN p[1] - q[1] ELSE q[1] - p[1],
        IF p[2] > q[2] THEN p[2] - q[2] ELSE q[2] - p[2])

\* C25: the squares _spiral_squares returns cover every cell of the raster
\* and no square is listed twice; the list starts at the lower-left corner
\* and each square touches the one before it; when the dimensions are
\* multiples of the side, the squares lie within the raster, no cell is in
\* two of them, and a square of an outer ring comes before every square of
\* a ring further in.
C25_SpiralPartitions ==
    tiling.returned =>
        LET sq == tiling.squares
            dd == tiling.side
            idx == 1 .. Len(sq)
        IN  /\ \A c \in RasterCells(tiling.rows, tiling.cols) :
                    \E i \in idx : c \in TileCells(sq[i], dd)
            /\ \A i, j \in idx : i # j => sq[i] # sq[j]
            /\ sq[1] = <<0, 0>>
            /\ \A i \in idx : i > 1 => Apart(sq[i - 1], sq[i]) <= dd
            /\ Multiple =>
                  /\ \A i \in idx :
                        TileCells(sq[i], dd)
                            \subseteq RasterCells(tiling.rows, tiling.cols)
                  /\ \A i, j \in idx :
                        i # j => TileCells(sq[i], dd) \cap TileCells(sq[j], dd) = {}
                  /\ \A i, j \in idx : i < j => Ring(sq[i]) <= Ring(sq[j])
\* A raster of three squares by three: eight squares around the border,
\* then the one in the middle.
C25_Witness ==
    /\ tiling.returned
    /\ Multiple
    /\ Len(tiling.squares) = 9
    /\ Ring(tiling.squares[8]) = 0
    /\ Ring(tiling.squares[9]) = 1

\* ------------------------------------------------------------ claims on squares()
\* The lower-left corners of the 100 km squares of the grid: 7 across and
\* 13 up.
Corners == {<<100000 * i, 100000 * j>> :
               i \in 0 .. (width \div 100000) - 1,
               j \in 0 .. (height \div 100000) - 1}
EntriesAt(list, corner) ==
    {k \in DOMAIN list : <<list[k][2], list[k][3]>> = corner}
EntriesNamed(list, name) == {k \in DOMAIN list : list[k][1] = name}

\* C26: the list squares() returns has one entry for each of the 7 x 13
\* corners and no other entry, no name is listed twice, and for every entry
\* (name, x, y) Coords.from_square_with_size(name) returns the point (x, y)
\* and the size 100000.
C26_SquaresListEachCellOnce ==
    /\ call.op = "squares" =>
          /\ Cardinality(Corners) = 7 * 13
          /\ Len(call.arg) = 7 * 13
          /\ \A corner \in Corners :
                Cardinality(EntriesAt(call.arg, corner)) = 1
          /\ \A k \in DOMAIN call.arg :
                Cardinality(EntriesNamed(call.arg, call.arg[k][1])) = 1
    /\ (call.op = "from_square_with_size"
           /\ EntriesNamed(squares, call.arg) # {}) =>
          \A k \in EntriesNamed(squares, call.arg) :
              /\ ret = Return(squares[k][2], squares[k][3], <<100000, 1>>)
              /\ obj.gridx = squares[k][2]
              /\ obj.gridy = squares[k][3]
\* The name of the first entry of the last row of the list, the square at
\* the north-west corner of the grid, has been parsed.
C26_Witness ==
    /\ call.op = "from_square_with_size"
    /\ call.arg = squares[7 * 12 + 1][1]
    /\ call.arg = <<"H", "L">>
    /\ ret.x = 0
    /\ ret.y = 1200000
    /\ ret.size = <<100000, 1>>

\* ------------------------------------------------------------ the frame of add_sea_slope
\* C27: add_sea_slope(heights, s) leaves every cell that was not s on entry
\* as it was.
C27_SlopeChangesSeaOnly ==
    phase \in {"sloped", "sloped2"} =>
        \A c \in Cells : entry[c] # s => heights[c] = entry[c]

\* ------------------------------------------------------------ the state of class Hill
\* C28: whenever Hill._hills is not empty the tree has been built, and
\* Hill.nearest never finds Hill._tree missing.
C28_HillsImplyTree ==
    /\ Hill.hills # <<>> => Hill.tree.built
    /\ hcall.op = "nearest" => hcall.raised # "AttributeError"

\* ------------------------------------------------------------ claims on the server
\* A message has been handled in the step, and it was refused because of the
\* limit on evaluations.
RefusedAtLimit == conn' # conn /\ conn'.queued = "error" /\ conn'.text = LimitReached
Asks == {"ask_height", "ask_heights"}

\* C29: n_evals is never above MAX_EVALS, and an ask_height or ask_heights
\* that is refused because of the limit leaves n_evals and the recorded
\* points as they were.
C29_EvaluationsWithinLimit ==
    /\ [](user.n_evals <= MAX_EVALS)
    /\ [](~user.has_finished => Len(user.points[1]) = user.n_evals)
    /\ [][RefusedAtLimit =>
            /\ conn'.name \in Asks
            /\ user'.n_evals = user.n_evals
            /\ user'.points = user.points
            /\ user' = user]_vars
\* A batch of two has been refused with room for one evaluation left.
C29_Witness ==
    /\ conn.name = "ask_heights"
    /\ conn.text = LimitReached
    /\ user.n_evals = MAX_EVALS - 1
    /\ Len(user.points[1]) = MAX_EVALS - 1

Figures == {"map_full", "map_zoom", "line_plot"}
Closed == {"ask_height", "ask_heights", "mean", "final_answer"}

\* C30: once has_finished is set, every ask_height, ask_heights, mean and
\* final_answer is answered with an error and changes nothing of the user;
\* an image is queued only for a user who has finished, and each of the
\* three images at most once.
C30_ClosedAfterFinalAnswer ==
    /\ [][(user.has_finished /\ conn' # conn /\ conn'.name \in Closed) =>
            /\ conn'.queued = "error"
            /\ conn'.text = AlreadyGiven
            /\ conn'.images = conn.images
            /\ user' = user]_vars
    /\ [][conn'.images # conn.images => user.has_finished]_vars
    /\ [](\A k \in Figures : conn.images[k] <= 1)
    /\ [](\A k \in Figures : conn.images[k] = 1 => user[k \o "_sent"])
    /\ [][user.has_finished => user'.has_finished]_vars
\* After an accepted final answer the three figures have been sent and a
\* further ask_heights has been answered with the error.
C30_Witness ==
    /\ user.has_finished
    /\ user.hd # <<>>
    /\ \A k \in Figures : conn.images[k] = 1
    /\ conn.name = "ask_heights"
    /\ conn.queued = "error"
    /\ conn.text = AlreadyGiven

====
